---- MODULE Spec2Model ----
(***************************************************************************)
(* Hazard ingestion worker (src/src/services/ingestion-worker.ts):         *)
(* syncHazardSource and cleanupStaleAlerts over the three tables           *)
(* hazard_alerts, source_watermarks and ingestion_logs.                    *)
(*                                                                         *)
(* Time is counted in minutes.  Every await of the worker is one step.     *)
(*                                                                         *)
(* Beside the worker: the taxonomy mapper of the type column               *)
(* (canonicalThreatType), applied to decorated spellings of a word; and the *)
(* circuit breaker (src/unnamed/part_019) over its three Redis keys, with   *)
(* time counted in seconds and every Redis command one step; and the event *)
(* queue of MoScriptsOrchestrator (src/unnamed/part_012), one step per turn *)
(* of the event loop.                                                      *)
(***************************************************************************)
EXTENDS Integers, Sequences, FiniteSets, TLC

\* ------------------------------------------------------------------ bounds
MaxWarm  == 11  \* failed syncs of WarmSource already in the store at start
MaxCalls == 1   \* syncHazardSource calls the scheduler makes in one behaviour
MaxBatch == 3   \* records a fetcher returns
MaxConcWarm  == 0  \* as MaxWarm, for the store concurrent calls start from
MaxConcBatch == 2  \* records a fetcher returns to a concurrent call
MaxLiveWarm  == 1  \* as MaxWarm, for the store of the termination check
MaxApply == 2      \* times the mapper is applied to one input
MaxWarmFailures == 5   \* recordFailure calls already made when a run starts
MaxBreakerCalls == 3   \* breaker calls made one after the other in a run
MaxBreakerTicks == 4   \* times the clock is advanced between two breaker calls
MaxRaceCalls    == 3   \* breaker calls made by the concurrent callers
MaxRaceTicks    == 3   \* as MaxBreakerTicks, for the concurrent callers
MaxEmits == 3          \* events passed to emit in one behaviour

\* --------------------------------------------------------- program constants
MaxBackoffMinutes == 1440
FreshnessMinutes  == 4320
BREAKER_THRESHOLD == 5
COOLDOWN_PERIOD   == 600
FailureWindow     == 3600  \* seconds the failures key lives after a failure

\* ------------------------------------------------------------------ values
NULL     == "NULL"
NullTime == 0 - 1
NullNum  == 0 - 9999

Sources    == {"gfs", "gdacs"}
WarmSource == "gfs"
Procs      == {1}

FetchErrors == {"upstream 503"}
FetchMinutes == {1}      \* how long a fetcher runs
StoreError  == "connection terminated"

\* Text of the type column: a sequence of characters, so that trimming and
\* lower-casing are computed and not assumed.
NullType   == <<"NULL">>
S_Hurricane == <<"H", "u", "r", "r", "i", "c", "a", "n", "e">>
S_HurricanePadded == <<" ", "H", "u", "r", "r", "i", "c", "a", "n", "e", " ">>
S_cyclone  == <<"c", "y", "c", "l", "o", "n", "e">>
S_tropical_cyclone == <<"t", "r", "o", "p", "i", "c", "a", "l", "_", "c", "y", "c", "l", "o", "n", "e">>
S_tc       == <<"t", "c">>
S_tropical_storm == <<"t", "r", "o", "p", "i", "c", "a", "l", " ", "s", "t", "o", "r", "m">>
S_hurricane == <<"h", "u", "r", "r", "i", "c", "a", "n", "e">>
S_typhoon  == <<"t", "y", "p", "h", "o", "o", "n">>
S_tropical_depression == <<"t", "r", "o", "p", "i", "c", "a", "l", "_", "d", "e", "p", "r", "e", "s", "s", "i", "o", "n">>
S_flood    == <<"f", "l", "o", "o", "d">>
S_drought  == <<"d", "r", "o", "u", "g", "h", "t">>
S_cholera  == <<"c", "h", "o", "l", "e", "r", "a">>
S_lassa    == <<"l", "a", "s", "s", "a">>
S_meningitis == <<"m", "e", "n", "i", "n", "g", "i", "t", "i", "s">>
S_malaria  == <<"m", "a", "l", "a", "r", "i", "a">>
S_ebola    == <<"e", "b", "o", "l", "a">>
S_measles  == <<"m", "e", "a", "s", "l", "e", "s">>
S_convergence == <<"c", "o", "n", "v", "e", "r", "g", "e", "n", "c", "e">>
S_unknown  == <<"u", "n", "k", "n", "o", "w", "n">>

UpperAlphabet == <<"A", "B", "C", "D", "E", "F", "G", "H", "I", "J", "K", "L", "M", "N", "O", "P", "Q", "R", "S", "T", "U", "V", "W", "X", "Y", "Z">>
LowerAlphabet == <<"a", "b", "c", "d", "e", "f", "g", "h", "i", "j", "k", "l", "m", "n", "o", "p", "q", "r", "s", "t", "u", "v", "w", "x", "y", "z">>
Whitespace    == {" ", "\t", "\n"}

toLowerCase(s) ==
  [i \in 1..Len(s) |->
     IF \E k \in 1..26 : UpperAlphabet[k] = s[i]
     THEN LowerAlphabet[CHOOSE k \in 1..26 : UpperAlphabet[k] = s[i]]
     ELSE s[i]]

RECURSIVE trimStart(_)
trimStart(s) ==
  IF s # <<>> /\ Head(s) \in Whitespace THEN trimStart(Tail(s)) ELSE s

RECURSIVE trimEnd(_)
trimEnd(s) ==
  IF s # <<>> /\ s[Len(s)] \in Whitespace
  THEN trimEnd(SubSeq(s, 1, Len(s) - 1)) ELSE s

trim(s) == trimEnd(trimStart(s))

\* canonical category -> accepted aliases
TaxonomyTable ==
  << [canonical |-> S_cyclone,
      aliases |-> {S_cyclone, S_tropical_cyclone, S_tc, S_tropical_storm,
                   S_hurricane, S_typhoon, S_tropical_depression}],
     [canonical |-> S_flood,       aliases |-> {S_flood}],
     [canonical |-> S_drought,     aliases |-> {S_drought}],
     [canonical |-> S_cholera,     aliases |-> {S_cholera}],
     [canonical |-> S_lassa,       aliases |-> {S_lassa}],
     [canonical |-> S_meningitis,  aliases |-> {S_meningitis}],
     [canonical |-> S_malaria,     aliases |-> {S_malaria}],
     [canonical |-> S_ebola,       aliases |-> {S_ebola}],
     [canonical |-> S_measles,     aliases |-> {S_measles}],
     [canonical |-> S_convergence, aliases |-> {S_convergence}] >>

\* Variant: the lookup without lower-casing.
canonicalThreatType_CaseSensitive(raw) ==
  IF raw = NullType \/ raw = <<>> THEN S_unknown
  ELSE LET n == trim(raw)
           hits == {k \in 1..Len(TaxonomyTable) : n \in TaxonomyTable[k].aliases}
       IN  IF hits # {} THEN TaxonomyTable[CHOOSE k \in hits : TRUE].canonical
           ELSE n

\* null, undefined (both NullType) or empty: "unknown"; else the category of
\* the normalized input, or the normalized input itself
canonicalThreatType(raw) ==
  IF raw = NullType \/ raw = <<>> THEN S_unknown
  ELSE LET n == toLowerCase(trim(raw))
           hits == {k \in 1..Len(TaxonomyTable) : n \in TaxonomyTable[k].aliases}
       IN  IF hits # {} THEN TaxonomyTable[CHOOSE k \in hits : TRUE].canonical
           ELSE n

\* ------------------------------------------------- spellings of a raw type
S_mystery_event == <<"m", "y", "s", "t", "e", "r", "y", "-", "e", "v", "e", "n", "t">>

\* the words a feed may put in the type column, in normal form
Aliases == UNION {TaxonomyTable[k].aliases : k \in 1..Len(TaxonomyTable)}
MapperWords == Aliases \cup {S_unknown, S_mystery_event, <<>>}

toUpperCase(s) ==
  [i \in 1..Len(s) |->
     IF \E k \in 1..26 : LowerAlphabet[k] = s[i]
     THEN UpperAlphabet[CHOOSE k \in 1..26 : LowerAlphabet[k] = s[i]]
     ELSE s[i]]

Capitalize(s) ==
  IF s = <<>> THEN s ELSE toUpperCase(<<Head(s)>>) \o Tail(s)

CaseStyles == {"lower", "UPPER", "Capital"}

Restyle(style, s) ==
  CASE style = "lower"   -> s
    [] style = "UPPER"   -> toUpperCase(s)
    [] style = "Capital" -> Capitalize(s)

\* whitespace put before and after a word
Paddings == {<< <<>>, <<>> >>, << <<" ">>, <<>> >>, << <<>>, <<" ">> >>,
             << <<"\t", " ">>, <<"\n">> >>}

Pad(pd, s) == pd[1] \o s \o pd[2]

NoOutput == <<"none">>

\* what a caller may pass: null, or a spelling of a word
MapperInputs ==
  {[origin |-> NullType, input |-> NullType]}
    \cup {[origin |-> w, input |-> Pad(pd, Restyle(cs, w))]
            : w \in MapperWords, cs \in CaseStyles, pd \in Paddings}

\* ----------------------------------------------------- records of the feeds
RecA  == [id |-> "f1", type |-> S_Hurricane, severity |-> "high",
          title |-> "Cyclone A", description |-> "first report",
          lat |-> 0 - 186, lng |-> 451, event_at |-> 5, intensity |-> 80,
          metadata |-> "m1"]
RecA2 == [id |-> "f1", type |-> S_cyclone, severity |-> "extreme",
          title |-> "Cyclone A rev", description |-> "revised report",
          lat |-> 0 - 190, lng |-> 460, event_at |-> 7, intensity |-> 95,
          metadata |-> "m2"]
RecN  == [id |-> NULL, type |-> S_flood, severity |-> NULL,
          title |-> "Regional flood", description |-> NULL,
          lat |-> NullNum, lng |-> NullNum, event_at |-> NullTime,
          intensity |-> NullNum, metadata |-> "m3"]

\* What an upstream feed holds; a fetcher resolves with its first records.
Feed == <<RecA, RecN, RecA2, RecN>>

Batches == {SubSeq(Feed, 1, k) : k \in 0..MaxBatch}

ConcBatches == {SubSeq(Feed, 1, k) : k \in 0..MaxConcBatch}

Min(a, b) == IF a < b THEN a ELSE b

\* ------------------------------------------------------------------- state
VARIABLES
  clock,              \* current time (Date.now() and the store's NOW())
  hazard_alerts,      \* table: sequence of rows in insertion order
  source_watermarks,  \* table: set of rows
  ingestion_logs,     \* table: sequence of rows in insertion order
  calls,              \* per caller: the syncHazardSource invocation in flight
  snap,               \* history: the tables as they were when the call started
  fails,              \* history: per source, failed syncs since the last success
  budget              \* calls the scheduler still makes

VARIABLES
  mapper              \* the input handed to canonicalThreatType, and its result

VARIABLES
  redis,              \* the keys breaker:<name>:state, :opened_at, :failures
  breakerCalls,       \* per caller: the CircuitBreaker method in flight
  wallClock,          \* current time in seconds (Date.now() / 1000)
  breakerHist,        \* history of the breaker calls made so far
  breakerBudget       \* breaker calls and clock advances still to come

VARIABLES
  registry,           \* the registered entries (Map script.id -> entry)
  eventQueue,         \* events emitted and not yet taken
  isProcessing,       \* the flag of processQueue
  orchRun,            \* the processQueue activation: the event it handles
  handled,            \* history: ids of the events whose handling finished
  emitted             \* history: number of events passed to emit

workerVars == <<clock, hazard_alerts, source_watermarks, ingestion_logs, calls,
                snap, fails, budget>>
mapperVars == <<mapper>>
breakerVars == <<redis, breakerCalls, wallClock, breakerHist, breakerBudget>>
orchVars == <<registry, eventQueue, isProcessing, orchRun, handled, emitted>>

\* what the worker leaves alone
besidesWorker == <<mapperVars, breakerVars, orchVars>>

vars == <<workerVars, mapperVars, breakerVars, orchVars>>

\* a reply of null, a key that does not exist
RedisNil  == "(nil)"
NoString  == <<"(nil)">>

\* no key of the breaker exists (a missing counter reads as 0)
EmptyRedis ==
  [state |-> RedisNil, opened_at |-> NoString, failures |-> 0,
   expires |-> NullTime]

IdleBreakerCall ==
  [op |-> "none", pc |-> "idle", count |-> 0, openAt |-> NoString,
   result |-> "none", value |-> "none"]

\* no call has been made yet
FreshBreakerHist ==
  [streak |-> 0, window |-> 0, lastFailureAt |-> NullTime,
   openSince |-> NullTime, lastOpenTransition |-> NullTime]

\* a breaker nobody has used
BreakerAtRest ==
  /\ redis = EmptyRedis
  /\ breakerCalls = [p \in {1} |-> IdleBreakerCall]
  /\ wallClock = 0
  /\ breakerHist = FreshBreakerHist
  /\ breakerBudget = [calls |-> 0, ticks |-> 0]

\* no processQueue activation exists
NoRun == [pc |-> "none", event |-> [id |-> 0, trigger |-> "none"], pending |-> {}]

\* the orchestrator as its constructor leaves it
OrchAtRest ==
  /\ registry = {}
  /\ eventQueue = <<>>
  /\ isProcessing = FALSE
  /\ orchRun = NoRun
  /\ handled = <<>>
  /\ emitted = 0

\* no input has been handed to the mapper
MapperAtRest ==
  mapper = [origin |-> NullType, input |-> NullType, output |-> NoOutput,
            applied |-> 0]

\* ------------------------------------------------------------ hazard_alerts
\* Variant: the unique key is external_id alone.
ConflictRows_IgnoresSource(rows, source, rec) ==
  {i \in 1..Len(rows) : /\ rec.id # NULL
                        /\ rows[i].external_id = rec.id}

\* UNIQUE (source, external_id): two NULL external ids never conflict.
ConflictRows(rows, source, rec) ==
  {i \in 1..Len(rows) : /\ rec.id # NULL
                        /\ rows[i].source = source
                        /\ rows[i].external_id = rec.id}

NewAlertRow(source, rec, t) ==
  [external_id |-> rec.id, source |-> source, type |-> rec.type,
   severity |-> rec.severity, title |-> rec.title,
   description |-> rec.description, lat |-> rec.lat, lng |-> rec.lng,
   event_at |-> rec.event_at, intensity |-> rec.intensity,
   metadata |-> rec.metadata, is_active |-> TRUE,
   created_at |-> t, updated_at |-> t]

\* Variant: ON CONFLICT also overwrites lat, lng and event_at.
ConflictUpdate_MovesEvent(row, rec, t) ==
  [row EXCEPT !.severity = rec.severity, !.title = rec.title,
              !.description = rec.description, !.intensity = rec.intensity,
              !.metadata = rec.metadata, !.updated_at = t,
              !.lat = rec.lat, !.lng = rec.lng, !.event_at = rec.event_at]

ConflictUpdate(row, rec, t) ==
  [row EXCEPT !.severity = rec.severity, !.title = rec.title,
              !.description = rec.description, !.intensity = rec.intensity,
              !.metadata = rec.metadata, !.updated_at = t]

\* Variant: a plain INSERT, without the ON CONFLICT clause.
UpsertAlert_AlwaysInserts(rows, source, rec, t) ==
  Append(rows, NewAlertRow(source, rec, t))

\* INSERT ... ON CONFLICT (source, external_id) DO UPDATE SET ...
UpsertAlert(rows, source, rec, t) ==
  LET hit == ConflictRows(rows, source, rec)
  IN  IF hit = {} THEN Append(rows, NewAlertRow(source, rec, t))
      ELSE [i \in 1..Len(rows) |->
              IF i \in hit THEN ConflictUpdate(rows[i], rec, t) ELSE rows[i]]

\* Variant: the sweep deactivates one row per run, the first it finds.
StaleSweep_FirstOnly(rows, t) ==
  LET hit == {i \in 1..Len(rows) :
                rows[i].updated_at < t - FreshnessMinutes /\ rows[i].is_active}
  IN  [i \in 1..Len(rows) |->
         IF i \in hit /\ \A j \in hit : i <= j
         THEN [rows[i] EXCEPT !.is_active = FALSE] ELSE rows[i]]

\* Variant: updated_at <= NOW() - 72h.
StaleSweep_Inclusive(rows, t) ==
  [i \in 1..Len(rows) |->
     IF rows[i].updated_at <= t - FreshnessMinutes /\ rows[i].is_active
     THEN [rows[i] EXCEPT !.is_active = FALSE] ELSE rows[i]]

\* UPDATE hazard_alerts SET is_active = false WHERE updated_at < NOW() - 72h AND is_active
StaleSweep(rows, t) ==
  [i \in 1..Len(rows) |->
     IF rows[i].updated_at < t - FreshnessMinutes /\ rows[i].is_active
     THEN [rows[i] EXCEPT !.is_active = FALSE] ELSE rows[i]]

\* -------------------------------------------------------- source_watermarks
WatermarkRows(wm, source) == {r \in wm : r.source = source}

\* rows[0]?.backoff_until
SelectBackoffUntil(wm, source) ==
  IF WatermarkRows(wm, source) = {} THEN NullTime
  ELSE (CHOOSE r \in WatermarkRows(wm, source) : TRUE).backoff_until

\* Variant: the comparison reversed.
InBackoff_Reversed(wm, source, now) ==
  /\ SelectBackoffUntil(wm, source) # NullTime
  /\ SelectBackoffUntil(wm, source) < now

\* rows[0]?.backoff_until && new Date(rows[0].backoff_until) > now
InBackoff(wm, source, now) ==
  /\ SelectBackoffUntil(wm, source) # NullTime
  /\ SelectBackoffUntil(wm, source) > now

\* (rows[0]?.error_count || 0) + 1
NextErrorCount(wm, source) ==
  IF WatermarkRows(wm, source) = {} THEN 1
  ELSE (CHOOSE r \in WatermarkRows(wm, source) : TRUE).error_count + 1

\* Variant: no 24 h cap.
BackoffMinutes_Uncapped(errorCount) == 2 ^ errorCount

\* Math.min(Math.pow(2, errorCount), 1440)
BackoffMinutes(errorCount) == Min(2 ^ errorCount, MaxBackoffMinutes)

\* Variant: ON CONFLICT leaves backoff_until as it is.
WatermarkSuccess_KeepsBackoff(wm, source, now) ==
  IF WatermarkRows(wm, source) = {}
  THEN wm \cup {[source |-> source, last_timestamp |-> now, error_count |-> 0,
                 backoff_until |-> NullTime]}
  ELSE {IF r.source = source
        THEN [r EXCEPT !.last_timestamp = now, !.error_count = 0]
        ELSE r : r \in wm}

WatermarkSuccess(wm, source, now) ==
  IF WatermarkRows(wm, source) = {}
  THEN wm \cup {[source |-> source, last_timestamp |-> now, error_count |-> 0,
                 backoff_until |-> NullTime]}
  ELSE {IF r.source = source
        THEN [r EXCEPT !.last_timestamp = now, !.error_count = 0,
                       !.backoff_until = NullTime]
        ELSE r : r \in wm}

\* Variant: ON CONFLICT increments the stored error_count in the statement.
WatermarkFailure_AtomicIncrement(wm, source, now, errorCount, backoffUntil) ==
  IF WatermarkRows(wm, source) = {}
  THEN wm \cup {[source |-> source, last_timestamp |-> now,
                 error_count |-> errorCount, backoff_until |-> backoffUntil]}
  ELSE {IF r.source = source
        THEN [r EXCEPT !.error_count = @ + 1,
                       !.backoff_until = backoffUntil]
        ELSE r : r \in wm}

WatermarkFailure(wm, source, now, errorCount, backoffUntil) ==
  IF WatermarkRows(wm, source) = {}
  THEN wm \cup {[source |-> source, last_timestamp |-> now,
                 error_count |-> errorCount, backoff_until |-> backoffUntil]}
  ELSE {IF r.source = source
        THEN [r EXCEPT !.error_count = errorCount,
                       !.backoff_until = backoffUntil]
        ELSE r : r \in wm}

\* ----------------------------------------------------------- ingestion_logs
\* Variant: one row per source, overwritten by each attempt.
logIngestion_Overwrites(logs, source, status, count, latency, error) ==
  LET row == [source |-> source, status |-> status, records_synced |-> count,
              latency_ms |-> latency, error_message |-> error]
  IN  IF \E i \in 1..Len(logs) : logs[i].source = source
      THEN [i \in 1..Len(logs) |-> IF logs[i].source = source THEN row ELSE logs[i]]
      ELSE Append(logs, row)

logIngestion(logs, source, status, count, latency, error) ==
  Append(logs, [source |-> source, status |-> status, records_synced |-> count,
                latency_ms |-> latency, error_message |-> error])

\* ------------------------------------------------------------ initial state
\* The worker starts against a persisted store: an empty one, the one left by
\* n earlier syncs of WarmSource that all failed in the fetcher (each started
\* at the instant the previous backoff ran out), or the one left by one
\* successful sync of WarmSource that fetched RecA2.
RECURSIVE FailedStore(_)
FailedStore(n) ==
  IF n = 0 THEN [clock |-> 0, alerts |-> <<>>, wm |-> {}, logs |-> <<>>,
                 fails |-> [n |-> 0, at |-> NullTime]]
  ELSE LET w  == FailedStore(n - 1)
           t  == IF n = 1 THEN 0 ELSE SelectBackoffUntil(w.wm, WarmSource)
           ec == NextErrorCount(w.wm, WarmSource)
       IN  [clock  |-> t,
            alerts |-> <<>>,
            wm     |-> WatermarkFailure(w.wm, WarmSource, t, ec, t + BackoffMinutes(ec)),
            logs   |-> logIngestion(w.logs, WarmSource, "FAILED", 0, 0,
                                    CHOOSE e \in FetchErrors : TRUE),
            fails  |-> [n |-> n, at |-> t]]

SyncedStore ==
  [clock  |-> 1,
   alerts |-> UpsertAlert(<<>>, WarmSource, RecA2, 1),
   wm     |-> WatermarkSuccess({}, WarmSource, 0),
   logs   |-> logIngestion(<<>>, WarmSource, "SUCCESS", 1, 1, NULL),
   fails  |-> [n |-> 0, at |-> NullTime]]

InitStores == {FailedStore(n) : n \in 0..MaxWarm} \cup {SyncedStore}

IdleCall ==
  [pc |-> "idle", source |-> "none", now |-> 0, startTime |-> 0,
   records |-> <<>>, idx |-> 0, error |-> NULL, failedAt |-> "none",
   errorCount |-> 0, backoffUntil |-> NullTime, failTime |-> NullTime,
   fetched |-> FALSE, skipped |-> FALSE, result |-> "none",
   value |-> "none", thrownBy |-> "none"]

EmptySnap == [alerts |-> <<>>, wm |-> {}, logs |-> <<>>]

Init ==
  \E st \in InitStores :
    /\ clock = st.clock
    /\ hazard_alerts = st.alerts
    /\ source_watermarks = st.wm
    /\ ingestion_logs = st.logs
    /\ calls = [p \in Procs |-> IdleCall]
    /\ snap = [p \in Procs |-> EmptySnap]
    /\ fails = [s \in Sources |->
                  IF s = WarmSource THEN st.fails ELSE [n |-> 0, at |-> NullTime]]
    /\ budget = MaxCalls
    /\ MapperAtRest
    /\ BreakerAtRest
    /\ OrchAtRest

\* ------------------------------------------------------------------ actions
Call(p) == calls[p]

SetCall(p, c) == calls' = [calls EXCEPT ![p] = c]

\* An exception leaves syncHazardSource: the promise rejects.
Thrown(c, stmt) ==
  [c EXCEPT !.pc = "done", !.result = "threw", !.value = StoreError,
            !.thrownBy = stmt]

\* syncHazardSource runs to its end: the promise resolves with no value.
Returned(c) == [c EXCEPT !.pc = "done", !.result = "returned", !.value = "undefined"]

\* A statement of the try block threw: control enters the catch block.
Caught(c, stmt, msg) ==
  [c EXCEPT !.pc = "q_errcount", !.failedAt = stmt, !.error = msg]

\* line 9: const now = new Date()
CallStart(p, source) ==
  /\ \A q \in Procs : calls[q].pc = "idle"
  /\ budget > 0
  /\ SetCall(p, [IdleCall EXCEPT !.pc = "q_backoff", !.source = source,
                                 !.now = clock])
  /\ snap' = [snap EXCEPT ![p] = [alerts |-> hazard_alerts,
                                  wm |-> source_watermarks,
                                  logs |-> ingestion_logs]]
  /\ budget' = budget - 1
  /\ UNCHANGED <<clock, hazard_alerts, source_watermarks, ingestion_logs,
                 fails>>

\* lines 12-18: the backoff check, the only early return
CheckBackoff(p) ==
  /\ Call(p).pc = "q_backoff"
  /\ IF InBackoff(source_watermarks, Call(p).source, Call(p).now)
     THEN SetCall(p, Returned([Call(p) EXCEPT !.skipped = TRUE]))
     ELSE SetCall(p, [Call(p) EXCEPT !.pc = "fetch", !.startTime = clock])
  /\ UNCHANGED <<clock, hazard_alerts, source_watermarks, ingestion_logs,
                 snap, fails, budget>>

\* line 12 rejects: outside the try block
CheckBackoffThrows(p) ==
  /\ Call(p).pc = "q_backoff"
  /\ SetCall(p, Thrown(Call(p), "q_backoff"))
  /\ UNCHANGED <<clock, hazard_alerts, source_watermarks, ingestion_logs,
                 snap, fails, budget>>

\* Variant: an empty array ends the call at once.
FetchResolves_SkipsEmpty(p, batch, d) ==
  /\ Call(p).pc = "fetch"
  /\ clock' = clock + d
  /\ SetCall(p, IF batch = <<>>
                THEN Returned([Call(p) EXCEPT !.fetched = TRUE, !.idx = 1])
                ELSE [Call(p) EXCEPT !.fetched = TRUE, !.records = batch,
                                     !.idx = 1, !.pc = "upsert"])
  /\ UNCHANGED <<hazard_alerts, source_watermarks, ingestion_logs,
                 snap, fails, budget>>

\* line 20: the fetcher resolves with an array
FetchResolves(p, batch, d) ==
  /\ Call(p).pc = "fetch"
  /\ clock' = clock + d
  /\ SetCall(p, [Call(p) EXCEPT !.fetched = TRUE, !.records = batch, !.idx = 1,
                   !.pc = IF batch = <<>> THEN "wm_ok" ELSE "upsert"])
  /\ UNCHANGED <<hazard_alerts, source_watermarks, ingestion_logs,
                 snap, fails, budget>>

\* line 20: the fetcher rejects
FetchRejects(p, msg, d) ==
  /\ Call(p).pc = "fetch"
  /\ clock' = clock + d
  /\ SetCall(p, Caught([Call(p) EXCEPT !.fetched = TRUE], "fetch", msg))
  /\ UNCHANGED <<hazard_alerts, source_watermarks, ingestion_logs,
                 snap, fails, budget>>

\* Variant: the loop walks the array from its last record to its first.
UpsertRecord_Reversed(p) ==
  /\ Call(p).pc = "upsert"
  /\ hazard_alerts' = UpsertAlert(hazard_alerts, Call(p).source,
                          Call(p).records[Len(Call(p).records) + 1 - Call(p).idx],
                          clock)
  /\ SetCall(p, [Call(p) EXCEPT !.idx = @ + 1,
                   !.pc = IF Call(p).idx = Len(Call(p).records)
                          THEN "wm_ok" ELSE "upsert"])
  /\ UNCHANGED <<clock, source_watermarks, ingestion_logs, snap, fails,
                 budget>>

\* lines 23-40: one iteration of the loop, the upsert succeeds
UpsertRecord(p) ==
  /\ Call(p).pc = "upsert"
  /\ hazard_alerts' = UpsertAlert(hazard_alerts, Call(p).source,
                                  Call(p).records[Call(p).idx], clock)
  /\ SetCall(p, [Call(p) EXCEPT !.idx = @ + 1,
                   !.pc = IF Call(p).idx = Len(Call(p).records)
                          THEN "wm_ok" ELSE "upsert"])
  /\ UNCHANGED <<clock, source_watermarks, ingestion_logs, snap, fails,
                 budget>>

\* Variant: the batch runs in one transaction, rolled back on error.
UpsertThrows_RollsBack(p) ==
  /\ Call(p).pc = "upsert"
  /\ hazard_alerts' = snap[p].alerts
  /\ SetCall(p, Caught(Call(p), "upsert", StoreError))
  /\ UNCHANGED <<clock, source_watermarks, ingestion_logs, snap, fails, budget>>

\* lines 23-40: the upsert of the current record throws
UpsertThrows(p) ==
  /\ Call(p).pc = "upsert"
  /\ SetCall(p, Caught(Call(p), "upsert", StoreError))
  /\ UNCHANGED <<clock, hazard_alerts, source_watermarks, ingestion_logs,
                 snap, fails, budget>>

\* lines 43-50
WatermarkReset(p) ==
  /\ Call(p).pc = "wm_ok"
  /\ source_watermarks' = WatermarkSuccess(source_watermarks, Call(p).source,
                                           Call(p).now)
  /\ SetCall(p, [Call(p) EXCEPT !.pc = "log_ok"])
  /\ UNCHANGED <<clock, hazard_alerts, ingestion_logs, snap, fails, budget>>

WatermarkResetThrows(p) ==
  /\ Call(p).pc = "wm_ok"
  /\ SetCall(p, Caught(Call(p), "wm_ok", StoreError))
  /\ UNCHANGED <<clock, hazard_alerts, source_watermarks, ingestion_logs,
                 snap, fails, budget>>

\* line 53
LogSuccess(p) ==
  /\ Call(p).pc = "log_ok"
  /\ ingestion_logs' = logIngestion(ingestion_logs, Call(p).source, "SUCCESS",
                                    Len(Call(p).records),
                                    clock - Call(p).startTime, NULL)
  /\ SetCall(p, Returned(Call(p)))
  /\ fails' = [fails EXCEPT ![Call(p).source] = [n |-> 0, at |-> NullTime]]
  /\ UNCHANGED <<clock, hazard_alerts, source_watermarks, snap, budget>>

\* Variant: the success log is written after the try block.
LogSuccessThrows_Escapes(p) ==
  /\ Call(p).pc = "log_ok"
  /\ SetCall(p, Thrown(Call(p), "log_ok"))
  /\ UNCHANGED <<clock, hazard_alerts, source_watermarks, ingestion_logs,
                 snap, fails, budget>>

LogSuccessThrows(p) ==
  /\ Call(p).pc = "log_ok"
  /\ SetCall(p, Caught(Call(p), "log_ok", StoreError))
  /\ UNCHANGED <<clock, hazard_alerts, source_watermarks, ingestion_logs,
                 snap, fails, budget>>

\* lines 59-62
ReadErrorCount(p) ==
  /\ Call(p).pc = "q_errcount"
  /\ LET errorCount == NextErrorCount(source_watermarks, Call(p).source)
     IN  SetCall(p, [Call(p) EXCEPT !.pc = "wm_fail",
                       !.errorCount = errorCount,
                       !.backoffUntil = clock + BackoffMinutes(errorCount),
                       !.failTime = clock])
  /\ UNCHANGED <<clock, hazard_alerts, source_watermarks, ingestion_logs,
                 snap, fails, budget>>

\* The baseline of the failure count of a source is lost when a call ends in
\* another way than a success or a handled fetch or upsert failure.
Unknown == [n |-> 0 - 1, at |-> NullTime]

ReadErrorCountThrows(p) ==
  /\ Call(p).pc = "q_errcount"
  /\ SetCall(p, Thrown(Call(p), "q_errcount"))
  /\ fails' = [fails EXCEPT ![Call(p).source] = Unknown]
  /\ UNCHANGED <<clock, hazard_alerts, source_watermarks, ingestion_logs,
                 snap, budget>>

\* Variant: the catch block retries the fetch instead of logging.
WatermarkBackoff_Retries(p) ==
  /\ Call(p).pc = "wm_fail"
  /\ source_watermarks' = WatermarkFailure(source_watermarks, Call(p).source,
                             Call(p).now, Call(p).errorCount,
                             Call(p).backoffUntil)
  /\ SetCall(p, [Call(p) EXCEPT !.pc = "fetch"])
  /\ UNCHANGED <<clock, hazard_alerts, ingestion_logs, snap, fails, budget>>

\* lines 64-70
WatermarkBackoff(p) ==
  /\ Call(p).pc = "wm_fail"
  /\ source_watermarks' = WatermarkFailure(source_watermarks, Call(p).source,
                             Call(p).now, Call(p).errorCount,
                             Call(p).backoffUntil)
  /\ SetCall(p, [Call(p) EXCEPT !.pc = "log_fail"])
  /\ UNCHANGED <<clock, hazard_alerts, ingestion_logs, snap, fails, budget>>

\* Variant: the handler ignores a failed watermark write and goes on to log.
WatermarkBackoffThrows_Swallowed(p) ==
  /\ Call(p).pc = "wm_fail"
  /\ SetCall(p, [Call(p) EXCEPT !.pc = "log_fail"])
  /\ UNCHANGED <<clock, hazard_alerts, source_watermarks, ingestion_logs,
                 snap, fails, budget>>

WatermarkBackoffThrows(p) ==
  /\ Call(p).pc = "wm_fail"
  /\ SetCall(p, Thrown(Call(p), "wm_fail"))
  /\ fails' = [fails EXCEPT ![Call(p).source] = Unknown]
  /\ UNCHANGED <<clock, hazard_alerts, source_watermarks, ingestion_logs,
                 snap, budget>>

\* Variant: the catch block rethrows after logging.
LogFailure_Rethrows(p) ==
  /\ Call(p).pc = "log_fail"
  /\ ingestion_logs' = logIngestion(ingestion_logs, Call(p).source, "FAILED", 0,
                                    clock - Call(p).startTime, Call(p).error)
  /\ SetCall(p, [Call(p) EXCEPT !.pc = "done", !.result = "threw",
                                !.value = Call(p).error])
  /\ fails' = [fails EXCEPT ![Call(p).source] = Unknown]
  /\ UNCHANGED <<clock, hazard_alerts, source_watermarks, snap, budget>>

\* Variant: the FAILED row counts the records committed before the error.
LogFailure_CountsCommitted(p) ==
  /\ Call(p).pc = "log_fail"
  /\ ingestion_logs' = logIngestion(ingestion_logs, Call(p).source, "FAILED",
                                    IF Call(p).idx > 0 THEN Call(p).idx - 1 ELSE 0,
                                    clock - Call(p).startTime, Call(p).error)
  /\ SetCall(p, Returned(Call(p)))
  /\ fails' = [fails EXCEPT ![Call(p).source] =
                 IF Call(p).failedAt \in {"fetch", "upsert"} /\ @.n >= 0
                 THEN [n |-> @.n + 1, at |-> Call(p).failTime]
                 ELSE Unknown]
  /\ UNCHANGED <<clock, hazard_alerts, source_watermarks, snap, budget>>

\* line 72, then the function returns
LogFailure(p) ==
  /\ Call(p).pc = "log_fail"
  /\ ingestion_logs' = logIngestion(ingestion_logs, Call(p).source, "FAILED", 0,
                                    clock - Call(p).startTime, Call(p).error)
  /\ SetCall(p, Returned(Call(p)))
  /\ fails' = [fails EXCEPT ![Call(p).source] =
                 IF Call(p).failedAt \in {"fetch", "upsert"} /\ @.n >= 0
                 THEN [n |-> @.n + 1, at |-> Call(p).failTime]
                 ELSE Unknown]
  /\ UNCHANGED <<clock, hazard_alerts, source_watermarks, snap, budget>>

LogFailureThrows(p) ==
  /\ Call(p).pc = "log_fail"
  /\ SetCall(p, Thrown(Call(p), "log_fail"))
  /\ fails' = [fails EXCEPT ![Call(p).source] = Unknown]
  /\ UNCHANGED <<clock, hazard_alerts, source_watermarks, ingestion_logs,
                 snap, budget>>

\* The caller takes the settled promise.
Return(p) ==
  /\ Call(p).pc = "done"
  /\ SetCall(p, IdleCall)
  /\ snap' = [snap EXCEPT ![p] = EmptySnap]
  /\ UNCHANGED <<clock, hazard_alerts, source_watermarks, ingestion_logs,
                 fails, budget>>

\* lines 76-84
cleanupStaleAlerts ==
  /\ \A q \in Procs : calls[q].pc = "idle"
  /\ hazard_alerts' = StaleSweep(hazard_alerts, clock)
  /\ UNCHANGED <<clock, source_watermarks, ingestion_logs, calls, snap, fails,
                 budget>>

\* Time passes between calls: to the end of a backoff window, or to either
\* side of the end of a row's freshness window.  (While a call runs, time
\* passes in the fetcher; a store query takes less than a minute.)
TickTargets ==
  {t \in {r.backoff_until : r \in source_watermarks}
         \cup {hazard_alerts[i].updated_at + FreshnessMinutes : i \in 1..Len(hazard_alerts)}
         \cup {hazard_alerts[i].updated_at + FreshnessMinutes + 1 : i \in 1..Len(hazard_alerts)}
     : t > clock}

Tick(t) ==
  /\ \A q \in Procs : calls[q].pc = "idle"
  /\ t \in TickTargets
  /\ clock' = t
  /\ UNCHANGED <<hazard_alerts, source_watermarks, ingestion_logs, calls, snap,
                 fails, budget>>

Next ==
  \/ \E p \in Procs, source \in Sources : CallStart(p, source)
       /\ UNCHANGED besidesWorker
  \/ \E p \in Procs : CheckBackoff(p)
       /\ UNCHANGED besidesWorker
  \/ \E p \in Procs : CheckBackoffThrows(p)
       /\ UNCHANGED besidesWorker
  \/ \E p \in Procs, batch \in Batches, d \in FetchMinutes : FetchResolves(p, batch, d)
       /\ UNCHANGED besidesWorker
  \/ \E p \in Procs, msg \in FetchErrors, d \in FetchMinutes : FetchRejects(p, msg, d)
       /\ UNCHANGED besidesWorker
  \/ \E p \in Procs : UpsertRecord(p)
       /\ UNCHANGED besidesWorker
  \/ \E p \in Procs : UpsertThrows(p)
       /\ UNCHANGED besidesWorker
  \/ \E p \in Procs : WatermarkReset(p)
       /\ UNCHANGED besidesWorker
  \/ \E p \in Procs : WatermarkResetThrows(p)
       /\ UNCHANGED besidesWorker
  \/ \E p \in Procs : LogSuccess(p)
       /\ UNCHANGED besidesWorker
  \/ \E p \in Procs : LogSuccessThrows(p)
       /\ UNCHANGED besidesWorker
  \/ \E p \in Procs : ReadErrorCount(p)
       /\ UNCHANGED besidesWorker
  \/ \E p \in Procs : ReadErrorCountThrows(p)
       /\ UNCHANGED besidesWorker
  \/ \E p \in Procs : WatermarkBackoff(p)
       /\ UNCHANGED besidesWorker
  \/ \E p \in Procs : WatermarkBackoffThrows(p)
       /\ UNCHANGED besidesWorker
  \/ \E p \in Procs : LogFailure(p)
       /\ UNCHANGED besidesWorker
  \/ \E p \in Procs : LogFailureThrows(p)
       /\ UNCHANGED besidesWorker
  \/ \E p \in Procs : Return(p)
       /\ UNCHANGED besidesWorker
  \/ cleanupStaleAlerts
       /\ UNCHANGED besidesWorker
  \/ \E t \in TickTargets : Tick(t)
       /\ UNCHANGED besidesWorker

Spec == Init /\ [][Next]_vars

\* One step of the call of p: an await of syncHazardSource settles.
CallStep(p) ==
  /\ \/ CheckBackoff(p)
     \/ CheckBackoffThrows(p)
     \/ \E batch \in Batches, d \in FetchMinutes : FetchResolves(p, batch, d)
     \/ \E msg \in FetchErrors, d \in FetchMinutes : FetchRejects(p, msg, d)
     \/ UpsertRecord(p)
     \/ UpsertThrows(p)
     \/ WatermarkReset(p)
     \/ WatermarkResetThrows(p)
     \/ LogSuccess(p)
     \/ LogSuccessThrows(p)
     \/ ReadErrorCount(p)
     \/ ReadErrorCountThrows(p)
     \/ WatermarkBackoff(p)
     \/ WatermarkBackoffThrows(p)
     \/ LogFailure(p)
     \/ LogFailureThrows(p)
  /\ UNCHANGED besidesWorker

LiveStores == {FailedStore(n) : n \in 0..MaxLiveWarm} \cup {SyncedStore}

InitLive ==
  \E st \in LiveStores :
    /\ clock = st.clock
    /\ hazard_alerts = st.alerts
    /\ source_watermarks = st.wm
    /\ ingestion_logs = st.logs
    /\ calls = [p \in Procs |-> IdleCall]
    /\ snap = [p \in Procs |-> EmptySnap]
    /\ fails = [s \in Sources |->
                  IF s = WarmSource THEN st.fails ELSE [n |-> 0, at |-> NullTime]]
    /\ budget = MaxCalls
    /\ MapperAtRest
    /\ BreakerAtRest
    /\ OrchAtRest

\* The fetcher and every store query of a call in flight settle: whatever the
\* call awaits, it is resumed.
SpecLive == InitLive /\ [][Next]_vars /\ \A p \in Procs : WF_vars(CallStep(p))

\* ------------------------------------------------------- concurrent callers
\* The scheduler starts a call without waiting for the calls in flight: the
\* awaits of two calls interleave in any order.  Each worker makes one call,
\* and its settled promise is kept.
Workers == {1, 2}

ConcStores == {FailedStore(n) : n \in 0..MaxConcWarm} \cup {SyncedStore}

InitConc ==
  \E st \in ConcStores :
    /\ clock = st.clock
    /\ hazard_alerts = st.alerts
    /\ source_watermarks = st.wm
    /\ ingestion_logs = st.logs
    /\ calls = [p \in Workers |-> IdleCall]
    /\ snap = [p \in Workers |-> EmptySnap]
    /\ fails = [s \in Sources |->
                  IF s = WarmSource THEN st.fails ELSE [n |-> 0, at |-> NullTime]]
    /\ budget = Cardinality(Workers)
    /\ MapperAtRest
    /\ BreakerAtRest
    /\ OrchAtRest

\* line 9, whatever the other calls are doing; the workers are taken in order
CallStartConc(p, source) ==
  /\ calls[p].pc = "idle"
  /\ \A q \in Workers : q < p => calls[q].pc # "idle"
  /\ budget > 0
  /\ SetCall(p, [IdleCall EXCEPT !.pc = "q_backoff", !.source = source,
                                 !.now = clock])
  /\ snap' = [snap EXCEPT ![p] = [alerts |-> hazard_alerts,
                                  wm |-> source_watermarks,
                                  logs |-> ingestion_logs]]
  /\ budget' = budget - 1
  /\ UNCHANGED <<clock, hazard_alerts, source_watermarks, ingestion_logs,
                 fails>>

NextConc ==
  \/ \E p \in Workers, source \in Sources : CallStartConc(p, source)
       /\ UNCHANGED besidesWorker
  \/ \E p \in Workers : CheckBackoff(p)
       /\ UNCHANGED besidesWorker
  \/ \E p \in Workers : CheckBackoffThrows(p)
       /\ UNCHANGED besidesWorker
  \/ \E p \in Workers, batch \in ConcBatches, d \in FetchMinutes : FetchResolves(p, batch, d)
       /\ UNCHANGED besidesWorker
  \/ \E p \in Workers, msg \in FetchErrors, d \in FetchMinutes : FetchRejects(p, msg, d)
       /\ UNCHANGED besidesWorker
  \/ \E p \in Workers : UpsertRecord(p)
       /\ UNCHANGED besidesWorker
  \/ \E p \in Workers : UpsertThrows(p)
       /\ UNCHANGED besidesWorker
  \/ \E p \in Workers : WatermarkReset(p)
       /\ UNCHANGED besidesWorker
  \/ \E p \in Workers : WatermarkResetThrows(p)
       /\ UNCHANGED besidesWorker
  \/ \E p \in Workers : LogSuccess(p)
       /\ UNCHANGED besidesWorker
  \/ \E p \in Workers : LogSuccessThrows(p)
       /\ UNCHANGED besidesWorker
  \/ \E p \in Workers : ReadErrorCount(p)
       /\ UNCHANGED besidesWorker
  \/ \E p \in Workers : ReadErrorCountThrows(p)
       /\ UNCHANGED besidesWorker
  \/ \E p \in Workers : WatermarkBackoff(p)
       /\ UNCHANGED besidesWorker
  \/ \E p \in Workers : WatermarkBackoffThrows(p)
       /\ UNCHANGED besidesWorker
  \/ \E p \in Workers : LogFailure(p)
       /\ UNCHANGED besidesWorker
  \/ \E p \in Workers : LogFailureThrows(p)
       /\ UNCHANGED besidesWorker

SpecConc == InitConc /\ [][NextConc]_vars

\* ------------------------------------------------------ the taxonomy mapper
\* the worker with nothing to do
WorkerAtRest ==
  /\ clock = 0
  /\ hazard_alerts = <<>>
  /\ source_watermarks = {}
  /\ ingestion_logs = <<>>
  /\ calls = [p \in Procs |-> IdleCall]
  /\ snap = [p \in Procs |-> EmptySnap]
  /\ fails = [s \in Sources |-> [n |-> 0, at |-> NullTime]]
  /\ budget = 0

InitMapper ==
  /\ WorkerAtRest
  /\ BreakerAtRest
  /\ OrchAtRest
  /\ \E i \in MapperInputs :
       mapper = [origin |-> i.origin, input |-> i.input, output |-> NoOutput,
                 applied |-> 0]

\* canonicalThreatType(input)
ApplyMapper ==
  /\ mapper.applied < MaxApply
  /\ mapper' = [mapper EXCEPT !.output = canonicalThreatType(mapper.input),
                              !.applied = @ + 1]
  /\ UNCHANGED <<workerVars, breakerVars, orchVars>>

NextMapper == ApplyMapper

SpecMapper == InitMapper /\ [][NextMapper]_vars

\* ------------------------------------------------------- the circuit breaker
\* Date.now(), in milliseconds
DateNow(t) == t * 1000

Digits == <<"0", "1", "2", "3", "4", "5", "6", "7", "8", "9">>

\* Number.prototype.toString of a non-negative integer
RECURSIVE toString(_)
toString(n) ==
  IF n < 10 THEN <<Digits[n + 1]>>
  ELSE toString(n \div 10) \o <<Digits[(n % 10) + 1]>>

DigitValue(ch) == (CHOOSE k \in 1..10 : Digits[k] = ch) - 1

\* parseInt of a string of decimal digits
RECURSIVE parseInt(_)
parseInt(str) ==
  IF Len(str) = 1 THEN DigitValue(str[1])
  ELSE parseInt(SubSeq(str, 1, Len(str) - 1)) * 10 + DigitValue(str[Len(str)])

\* Redis drops a key whose time to live has run out
Live(r, t) ==
  IF r.expires # NullTime /\ t > r.expires
  THEN [r EXCEPT !.failures = 0, !.expires = NullTime]
  ELSE r

\* INCR breaker:<name>:failures
Incr(r, t) == [Live(r, t) EXCEPT !.failures = @ + 1]

\* EXPIRE breaker:<name>:failures secs
Expire(r, t, secs) ==
  IF Live(r, t).failures = 0 THEN Live(r, t)
  ELSE [Live(r, t) EXCEPT !.expires = t + secs]

\* DEL breaker:<name>:failures
Del(r) == [r EXCEPT !.failures = 0, !.expires = NullTime]

\* SET breaker:<name>:state v
SetState(r, v) == [r EXCEPT !.state = v]

\* SET breaker:<name>:opened_at v
SetOpenedAt(r, v) == [r EXCEPT !.opened_at = v]

\* Variant: more than BREAKER_THRESHOLD failures trip the breaker.
Tripped_Strict(count) == count > BREAKER_THRESHOLD

\* line 30: count >= BREAKER_THRESHOLD
Tripped(count) == count >= BREAKER_THRESHOLD

\* line 17: openAt && Date.now() - parseInt(openAt) > COOLDOWN_PERIOD * 1000
CooldownOver(openAt, t) ==
  /\ openAt # NoString
  /\ DateNow(t) - parseInt(openAt) > COOLDOWN_PERIOD * 1000

\* history after a recordFailure call made at t has returned
AfterFailure(h, t, tripped) ==
  [h EXCEPT !.streak = @ + 1,
            !.window = IF h.lastFailureAt # NullTime
                          /\ t - h.lastFailureAt >= FailureWindow
                       THEN 1 ELSE @ + 1,
            !.lastFailureAt = t,
            !.openSince = IF tripped THEN t ELSE @]

\* the keys and the history after n recordFailure calls at second 0
RECURSIVE WarmBreaker(_)
WarmBreaker(n) ==
  IF n = 0 THEN [redis |-> EmptyRedis, hist |-> FreshBreakerHist]
  ELSE LET w  == WarmBreaker(n - 1)
           r2 == Expire(Incr(w.redis, 0), 0, FailureWindow)
           tr == Tripped(r2.failures)
       IN  [redis |-> IF tr
                      THEN SetOpenedAt(SetState(r2, "OPEN"), toString(DateNow(0)))
                      ELSE r2,
            hist  |-> [AfterFailure(w.hist, 0, tr) EXCEPT
                         !.lastOpenTransition =
                            IF tr /\ w.redis.state # "OPEN" THEN 0 ELSE @]]

BreakerOps == {"recordFailure", "isOpen", "recordSuccess"}

FirstStep(op) ==
  CASE op = "recordFailure" -> "incr"
    [] op = "isOpen"        -> "get_state"
    [] op = "recordSuccess" -> "del"

BCall(p) == breakerCalls[p]

SetBCall(p, c) == breakerCalls' = [breakerCalls EXCEPT ![p] = c]

BReturned(c, v) == [c EXCEPT !.pc = "done", !.result = "returned", !.value = v]

\* a caller invokes a method of the breaker
BreakerCallStart(p, op) ==
  /\ BCall(p).pc = "idle"
  /\ breakerBudget.calls > 0
  /\ SetBCall(p, [IdleBreakerCall EXCEPT !.op = op, !.pc = FirstStep(op)])
  /\ breakerBudget' = [breakerBudget EXCEPT !.calls = @ - 1]
  /\ breakerHist' = IF op = "recordSuccess"
                    THEN [breakerHist EXCEPT !.streak = 0, !.window = 0,
                                             !.openSince = NullTime]
                    ELSE breakerHist
  /\ UNCHANGED <<redis, wallClock>>

\* line 27
RecordFailureIncr(p) ==
  /\ BCall(p).pc = "incr"
  /\ redis' = Incr(redis, wallClock)
  /\ SetBCall(p, [BCall(p) EXCEPT !.pc = "expire", !.count = redis'.failures])
  /\ UNCHANGED <<wallClock, breakerHist, breakerBudget>>

\* lines 28-30
RecordFailureExpire(p) ==
  /\ BCall(p).pc = "expire"
  /\ redis' = Expire(redis, wallClock, FailureWindow)
  /\ IF Tripped(BCall(p).count)
     THEN /\ SetBCall(p, [BCall(p) EXCEPT !.pc = "set_open"])
          /\ UNCHANGED breakerHist
     ELSE /\ SetBCall(p, BReturned(BCall(p), "undefined"))
          /\ breakerHist' = AfterFailure(breakerHist, wallClock, FALSE)
  /\ UNCHANGED <<wallClock, breakerBudget>>

\* line 31
RecordFailureSetOpen(p) ==
  /\ BCall(p).pc = "set_open"
  /\ redis' = SetState(redis, "OPEN")
  /\ SetBCall(p, [BCall(p) EXCEPT !.pc = "set_opened_at"])
  /\ breakerHist' = IF redis.state # "OPEN"
                    THEN [breakerHist EXCEPT !.lastOpenTransition = wallClock]
                    ELSE breakerHist
  /\ UNCHANGED <<wallClock, breakerBudget>>

\* line 32
RecordFailureSetOpenedAt(p) ==
  /\ BCall(p).pc = "set_opened_at"
  /\ redis' = SetOpenedAt(redis, toString(DateNow(wallClock)))
  /\ SetBCall(p, BReturned(BCall(p), "undefined"))
  /\ breakerHist' = AfterFailure(breakerHist, wallClock, TRUE)
  /\ UNCHANGED <<wallClock, breakerBudget>>

\* lines 14-15 and 23
IsOpenGetState(p) ==
  /\ BCall(p).pc = "get_state"
  /\ IF redis.state = "OPEN"
     THEN SetBCall(p, [BCall(p) EXCEPT !.pc = "get_opened_at"])
     ELSE SetBCall(p, BReturned(BCall(p), FALSE))
  /\ UNCHANGED <<redis, wallClock, breakerHist, breakerBudget>>

\* lines 16-17 and 21
IsOpenGetOpenedAt(p) ==
  /\ BCall(p).pc = "get_opened_at"
  /\ IF CooldownOver(redis.opened_at, wallClock)
     THEN SetBCall(p, [BCall(p) EXCEPT !.pc = "half_open",
                                       !.openAt = redis.opened_at])
     ELSE SetBCall(p, BReturned([BCall(p) EXCEPT !.openAt = redis.opened_at],
                                TRUE))
  /\ UNCHANGED <<redis, wallClock, breakerHist, breakerBudget>>

\* lines 18-19 and 41-43
halfOpen(p) ==
  /\ BCall(p).pc = "half_open"
  /\ redis' = SetState(redis, "HALF_OPEN")
  /\ SetBCall(p, BReturned(BCall(p), FALSE))
  /\ breakerHist' = [breakerHist EXCEPT !.openSince = NullTime]
  /\ UNCHANGED <<wallClock, breakerBudget>>

\* line 37
RecordSuccessDel(p) ==
  /\ BCall(p).pc = "del"
  /\ redis' = Del(redis)
  /\ SetBCall(p, [BCall(p) EXCEPT !.pc = "set_closed"])
  /\ UNCHANGED <<wallClock, breakerHist, breakerBudget>>

\* line 38
RecordSuccessSetClosed(p) ==
  /\ BCall(p).pc = "set_closed"
  /\ redis' = SetState(redis, "CLOSED")
  /\ SetBCall(p, BReturned(BCall(p), "undefined"))
  /\ UNCHANGED <<wallClock, breakerHist, breakerBudget>>

\* the Redis command the call is waiting for rejects: no key changes, and
\* the method rejects (no statement of the class catches)
CommandRejects(p) ==
  /\ BCall(p).pc \notin {"idle", "done"}
  /\ SetBCall(p, [BCall(p) EXCEPT !.pc = "done", !.result = "threw",
                                  !.value = StoreError])
  /\ UNCHANGED <<redis, wallClock, breakerHist, breakerBudget>>

\* the caller takes the settled promise
BreakerReturn(p) ==
  /\ BCall(p).pc = "done"
  /\ SetBCall(p, IdleBreakerCall)
  /\ UNCHANGED <<redis, wallClock, breakerHist, breakerBudget>>

\* seconds by which the clock is advanced between calls (a Redis command
\* takes less than a second)
TickSeconds == {1, 599, 3000}

BreakerTick(d) ==
  /\ \A q \in DOMAIN breakerCalls : breakerCalls[q].pc = "idle"
  /\ breakerBudget.ticks > 0
  /\ wallClock' = wallClock + d
  /\ breakerBudget' = [breakerBudget EXCEPT !.ticks = @ - 1]
  /\ UNCHANGED <<redis, breakerCalls, breakerHist>>

besidesBreaker == <<workerVars, mapperVars, orchVars>>

\* one caller: every call returns before the next is made
InitBreaker ==
  /\ WorkerAtRest
  /\ MapperAtRest
  /\ OrchAtRest
  /\ \E n \in 0..MaxWarmFailures :
       /\ redis = WarmBreaker(n).redis
       /\ breakerHist = WarmBreaker(n).hist
  /\ breakerCalls = [p \in {1} |-> IdleBreakerCall]
  /\ wallClock = 0
  /\ breakerBudget = [calls |-> MaxBreakerCalls, ticks |-> MaxBreakerTicks]

NextBreaker ==
  \/ \E p \in DOMAIN breakerCalls, op \in BreakerOps : BreakerCallStart(p, op)
       /\ UNCHANGED besidesBreaker
  \/ \E p \in DOMAIN breakerCalls : RecordFailureIncr(p)
       /\ UNCHANGED besidesBreaker
  \/ \E p \in DOMAIN breakerCalls : RecordFailureExpire(p)
       /\ UNCHANGED besidesBreaker
  \/ \E p \in DOMAIN breakerCalls : RecordFailureSetOpen(p)
       /\ UNCHANGED besidesBreaker
  \/ \E p \in DOMAIN breakerCalls : RecordFailureSetOpenedAt(p)
       /\ UNCHANGED besidesBreaker
  \/ \E p \in DOMAIN breakerCalls : IsOpenGetState(p)
       /\ UNCHANGED besidesBreaker
  \/ \E p \in DOMAIN breakerCalls : IsOpenGetOpenedAt(p)
       /\ UNCHANGED besidesBreaker
  \/ \E p \in DOMAIN breakerCalls : halfOpen(p)
       /\ UNCHANGED besidesBreaker
  \/ \E p \in DOMAIN breakerCalls : RecordSuccessDel(p)
       /\ UNCHANGED besidesBreaker
  \/ \E p \in DOMAIN breakerCalls : RecordSuccessSetClosed(p)
       /\ UNCHANGED besidesBreaker
  \/ \E p \in DOMAIN breakerCalls : CommandRejects(p)
       /\ UNCHANGED besidesBreaker
  \/ \E p \in DOMAIN breakerCalls : BreakerReturn(p)
       /\ UNCHANGED besidesBreaker
  \/ \E d \in TickSeconds : BreakerTick(d)
       /\ UNCHANGED besidesBreaker

SpecBreaker == InitBreaker /\ [][NextBreaker]_vars

\* two callers share the breaker: the commands of their recordFailure and
\* isOpen calls interleave in any order, and every command succeeds
RaceCallers == {1, 2}

RaceOps == {"recordFailure", "isOpen"}

InitBreakerRace ==
  /\ WorkerAtRest
  /\ MapperAtRest
  /\ OrchAtRest
  /\ \E n \in 0..MaxWarmFailures :
       /\ redis = WarmBreaker(n).redis
       /\ breakerHist = WarmBreaker(n).hist
  /\ breakerCalls = [p \in RaceCallers |-> IdleBreakerCall]
  /\ wallClock = 0
  /\ breakerBudget = [calls |-> MaxRaceCalls, ticks |-> MaxRaceTicks]

NextBreakerRace ==
  \/ \E p \in RaceCallers, op \in RaceOps : BreakerCallStart(p, op)
       /\ UNCHANGED besidesBreaker
  \/ \E p \in RaceCallers : RecordFailureIncr(p)
       /\ UNCHANGED besidesBreaker
  \/ \E p \in RaceCallers : RecordFailureExpire(p)
       /\ UNCHANGED besidesBreaker
  \/ \E p \in RaceCallers : RecordFailureSetOpen(p)
       /\ UNCHANGED besidesBreaker
  \/ \E p \in RaceCallers : RecordFailureSetOpenedAt(p)
       /\ UNCHANGED besidesBreaker
  \/ \E p \in RaceCallers : IsOpenGetState(p)
       /\ UNCHANGED besidesBreaker
  \/ \E p \in RaceCallers : IsOpenGetOpenedAt(p)
       /\ UNCHANGED besidesBreaker
  \/ \E p \in RaceCallers : halfOpen(p)
       /\ UNCHANGED besidesBreaker
  \/ \E p \in RaceCallers : BreakerReturn(p)
       /\ UNCHANGED besidesBreaker
  \/ \E d \in TickSeconds : BreakerTick(d)
       /\ UNCHANGED besidesBreaker

SpecBreakerRace == InitBreakerRace /\ [][NextBreakerRace]_vars

\* ------------------------------------------------- the MoScripts orchestrator
\* register and emit are called, in any order and at any turn of the event
\* loop; clear, unregister and setEnabled are not.  What a callback of a
\* script does (return, throw, reject, hang until the timeout) is chosen anew
\* each time it is called.
Triggers == {"onAlert", "onTick"}

\* the scripts a program may register, with the options of register()
ScriptPool ==
  { [id |-> "plain",   trigger |-> "onAlert", enabled |-> TRUE,  priority |-> 0,
     conditions |-> FALSE, validate |-> FALSE],
    [id |-> "guarded", trigger |-> "onAlert", enabled |-> TRUE,  priority |-> 1,
     conditions |-> TRUE,  validate |-> TRUE],
    [id |-> "checked", trigger |-> "onTick",  enabled |-> TRUE,  priority |-> 0,
     conditions |-> FALSE, validate |-> TRUE],
    [id |-> "muted",   trigger |-> "onTick",  enabled |-> FALSE, priority |-> 0,
     conditions |-> TRUE,  validate |-> FALSE] }

\* lines 595-605
register(script) ==
  /\ script \notin registry
  /\ registry' = registry \cup {script}
  /\ UNCHANGED <<eventQueue, isProcessing, orchRun, handled, emitted>>

\* lines 669-677: the entries whose conditions callback, if any, is asked
Candidates(ev) == {e \in registry : e.enabled /\ e.trigger = ev.trigger}

\* lines 667-682: the sets filter() may return when no conditions callback
\* throws (an entry without conditions always responds); the sort by priority
\* orders the start of the scripts, which all start in the same turn
RespondingSets(ev) ==
  {R \in SUBSET Candidates(ev) : \A e \in Candidates(ev) : ~e.conditions => e \in R}

\* line 678: a conditions callback is called outside any try block
ConditionsMayThrow(ev) == \E e \in Candidates(ev) : e.conditions

\* lines 702-716: of the scripts that respond, those whose promise is still
\* open when executeScript reaches its await; the others have rejected in the
\* catch block already (validate returned false or threw, or logic threw)
PendingSets(R) == SUBSET {e.id : e \in R}

\* lines 652-656 and 665-691: processQueue takes the head of queue q and
\* handleEvent runs to its first await, or throws
TakeNext(q) ==
  /\ eventQueue' = Tail(q)
  /\ isProcessing' = TRUE
  /\ \/ /\ ConditionsMayThrow(Head(q))
        /\ orchRun' = NoRun
     \/ \E R \in RespondingSets(Head(q)) :
          \E P \in PendingSets(R) :
            orchRun' = [pc |-> "executing", event |-> Head(q), pending |-> P]

\* lines 630-644, and line 650 when no processQueue is running
emit(trigger) ==
  /\ emitted < MaxEmits
  /\ emitted' = emitted + 1
  /\ LET q == Append(eventQueue, [id |-> emitted + 1, trigger |-> trigger])
     IN  IF isProcessing
         THEN /\ eventQueue' = q
              /\ UNCHANGED <<isProcessing, orchRun>>
         ELSE TakeNext(q)
  /\ UNCHANGED <<registry, handled>>

\* lines 715-718 and 855-859: the logic of a script settles, or the timeout
\* rejects; executeScript resolves or rejects, which allSettled absorbs
ScriptSettles(id) ==
  /\ orchRun.pc = "executing"
  /\ id \in orchRun.pending
  /\ orchRun' = [orchRun EXCEPT !.pending = @ \ {id}]
  /\ UNCHANGED <<registry, eventQueue, isProcessing, handled, emitted>>

\* lines 688-696 and 652-659: allSettled resolves (or no script responded),
\* the listeners are notified, handleEvent returns and the loop goes on
LoopNext ==
  /\ orchRun.pc = "executing"
  /\ orchRun.pending = {}
  /\ handled' = Append(handled, orchRun.event.id)
  /\ IF eventQueue = <<>>
     THEN /\ isProcessing' = FALSE
          /\ orchRun' = NoRun
          /\ UNCHANGED eventQueue
     ELSE TakeNext(eventQueue)
  /\ UNCHANGED <<registry, emitted>>

besidesOrch == <<workerVars, mapperVars, breakerVars>>

InitOrch ==
  /\ WorkerAtRest
  /\ MapperAtRest
  /\ BreakerAtRest
  /\ OrchAtRest

NextOrch ==
  \/ \E script \in ScriptPool : register(script)
       /\ UNCHANGED besidesOrch
  \/ \E trigger \in Triggers : emit(trigger)
       /\ UNCHANGED besidesOrch
  \/ \E id \in {e.id : e \in ScriptPool} : ScriptSettles(id)
       /\ UNCHANGED besidesOrch
  \/ LoopNext
       /\ UNCHANGED besidesOrch

SpecOrch == InitOrch /\ [][NextOrch]_vars

\* ------------------------------------------------ the current-threats read
\* Math.max(1, Math.min(500, Number(limit ?? 100)))
ClampLimit(q) == IF q < 1 THEN 1 ELSE Min(500, q)

\* the limit query parameter of a request (100 when absent)
ReadLimits == {0, 1, 2, 100}

\* the surrogate key: rows are numbered in insertion order
ActiveIds(rows) == {i \in 1..Len(rows) : rows[i].is_active}

\* COALESCE(event_at, created_at)
OrderKey(row) == IF row.event_at # NullTime THEN row.event_at ELSE row.created_at

\* WHERE is_active = TRUE ORDER BY COALESCE(event_at, created_at) DESC LIMIT n:
\* every order the store may return (rows with equal keys come in any order)
RECURSIVE OrderedIds(_, _, _)
OrderedIds(rows, ids, n) ==
  IF n = 0 \/ ids = {} THEN {<<>>}
  ELSE LET top == {i \in ids : \A j \in ids : OrderKey(rows[i]) >= OrderKey(rows[j])}
       IN  UNION {{<<i>> \o rest : rest \in OrderedIds(rows, ids \ {i}, n - 1)} : i \in top}

RECURSIVE FilterFinite(_, _)
FilterFinite(rows, ids) ==
  IF ids = <<>> THEN <<>>
  ELSE IF rows[Head(ids)].lat # NullNum /\ rows[Head(ids)].lng # NullNum
       THEN <<Head(ids)>> \o FilterFinite(rows, Tail(ids))
       ELSE FilterFinite(rows, Tail(ids))

Threat(rows, i) ==
  [id |-> i, type |-> rows[i].type, severity |-> rows[i].severity,
   title |-> rows[i].title, description |-> rows[i].description,
   timestamp |-> OrderKey(rows[i]), center_lat |-> rows[i].lat,
   center_lng |-> rows[i].lng, created_at |-> rows[i].created_at]

\* Variant: the SELECT without WHERE is_active = TRUE.
CurrentThreats_AllRows(rows, q) ==
  {[k \in 1..Len(FilterFinite(rows, ids)) |-> Threat(rows, FilterFinite(rows, ids)[k])]
     : ids \in OrderedIds(rows, 1..Len(rows), ClampLimit(q))}

\* the responses the read may give for ?limit=q
CurrentThreats(rows, q) ==
  {[k \in 1..Len(FilterFinite(rows, ids)) |-> Threat(rows, FilterFinite(rows, ids)[k])]
     : ids \in OrderedIds(rows, ActiveIds(rows), ClampLimit(q))}

\* ================================================================== claims
Idle(p) == calls[p].pc = "idle"
Done(p) == calls[p].pc = "done"

\* the watermark rows of the source of call p, now and when the call started
WmNow(p)   == {r \in source_watermarks : r.source = calls[p].source}
WmThen(p)  == {r \in snap[p].wm : r.source = calls[p].source}
NewLogs(p) == SubSeq(ingestion_logs, Len(snap[p].logs) + 1, Len(ingestion_logs))

\* the try block failed in the fetcher or in a record upsert, and the catch
\* block ran to its end
HandledFailure(p) ==
  /\ Done(p)
  /\ calls[p].failedAt \in {"fetch", "upsert"}
  /\ calls[p].thrownBy = "none"

\* C1: hazard_alerts never holds two rows with the same source and the same
\* non-null external_id.
C1_UniqueSourceExternalId ==
  \A i, j \in 1..Len(hazard_alerts) :
    ( /\ hazard_alerts[i].external_id # NULL
      /\ hazard_alerts[i].source = hazard_alerts[j].source
      /\ hazard_alerts[i].external_id = hazard_alerts[j].external_id ) => i = j

\* a call upserted more records than it added rows: one of them hit a row
C1_Witness ==
  \E p \in Procs :
    /\ Done(p) /\ calls[p].idx > 1
    /\ Len(hazard_alerts) < Len(snap[p].alerts) + (calls[p].idx - 1)

StartedInBackoff(p) ==
  \E r \in WmThen(p) : r.backoff_until # NullTime /\ r.backoff_until > calls[p].now

\* C2: a call that starts while its source's backoff_until is later than the
\* call's start time never invokes the fetcher, leaves the three tables as
\* they were, and (its watermark read succeeding) returns.
C2_BackoffSkipsWithoutEffect ==
  \A p \in Procs :
    (~Idle(p) /\ StartedInBackoff(p)) =>
      /\ calls[p].pc \in {"q_backoff", "done"}
      /\ ~calls[p].fetched
      /\ hazard_alerts = snap[p].alerts
      /\ source_watermarks = snap[p].wm
      /\ ingestion_logs = snap[p].logs
      /\ (Done(p) /\ calls[p].thrownBy = "none") =>
            calls[p].result = "returned" /\ calls[p].value = "undefined"

C2_Witness ==
  \E p \in Procs : Done(p) /\ StartedInBackoff(p) /\ calls[p].result = "returned"

WatermarkIsReset(p) ==
  /\ WmNow(p) # {}
  /\ \A r \in WmNow(p) : /\ r.error_count = 0
                         /\ r.backoff_until = NullTime
                         /\ r.last_timestamp = calls[p].now

\* C4 as stated: once the fetch, every upsert and the watermark write of a
\* call have succeeded, the call ends with the watermark reset.
C4_ResetAfterWatermarkWrite ==
  \A p \in Procs :
    ( /\ Done(p) /\ calls[p].fetched
      /\ calls[p].failedAt \in {"none", "log_ok"} ) => WatermarkIsReset(p)

\* C4 amended: when the fetch, every upsert, the watermark write and the
\* SUCCESS log write succeed, the watermark afterwards has error_count = 0,
\* backoff_until = NULL and last_timestamp = the start time of the call.
C4_ResetOnFullSuccess ==
  \A p \in Procs :
    ( /\ Done(p) /\ calls[p].fetched
      /\ calls[p].failedAt = "none" ) => WatermarkIsReset(p)

\* a full success of a source that had failures on record
C4_Witness ==
  \E p \in Procs :
    /\ Done(p) /\ calls[p].fetched /\ calls[p].failedAt = "none"
    /\ \E r \in WmThen(p) : r.error_count >= 1 /\ r.backoff_until # NullTime

\* record r of the call is in the table, written during the call
Present(p, r) ==
  \E i \in 1..Len(hazard_alerts) :
    /\ hazard_alerts[i].source = calls[p].source
    /\ hazard_alerts[i].external_id = r.id
    /\ hazard_alerts[i].updated_at >= calls[p].startTime
    /\ r.id = NULL => /\ i > Len(snap[p].alerts)
                      /\ hazard_alerts[i].title = r.title

\* row i was added or changed since the call started
Touched(p, i) ==
  \/ i > Len(snap[p].alerts)
  \/ hazard_alerts[i] # snap[p].alerts[i]

\* C5: when the upsert of record k throws (and the handler's own queries
\* succeed), records 1..k-1 are in hazard_alerts, nothing else was written,
\* one FAILED log row carries the error message, and the watermark records a
\* failure.
C5_PartialBatchDurability ==
  \A p \in Procs :
    (HandledFailure(p) /\ calls[p].failedAt = "upsert") =>
      LET k    == calls[p].idx
          recs == calls[p].records
      IN  /\ k \in 1..Len(recs)
          /\ \A j \in 1..(k - 1) : Present(p, recs[j])
          /\ Len(hazard_alerts) <= Len(snap[p].alerts) + (k - 1)
          /\ \A i \in 1..Len(hazard_alerts) :
               Touched(p, i) =>
                 \E j \in 1..(k - 1) :
                   /\ hazard_alerts[i].source = calls[p].source
                   /\ hazard_alerts[i].external_id = recs[j].id
          /\ Len(NewLogs(p)) = 1
          /\ NewLogs(p)[1].status = "FAILED"
          /\ NewLogs(p)[1].error_message = calls[p].error
          /\ calls[p].error # NULL
          /\ WmNow(p) # {}
          /\ \A r \in WmNow(p) :
               /\ r.error_count >= 1
               /\ r.backoff_until # NullTime
               /\ \A r0 \in WmThen(p) : r.error_count = r0.error_count + 1

\* the second of three records failed
C5_Witness ==
  \E p \in Procs :
    /\ HandledFailure(p) /\ calls[p].failedAt = "upsert"
    /\ calls[p].idx = 2 /\ Len(calls[p].records) = 3

\* C6: a call whose fetcher rejects or whose record upsert throws, and whose
\* handler queries succeed, resolves with no value, as a successful call does;
\* the failure shows only as backoff state and a FAILED log row.
C6_FailureIsSwallowed ==
  \A p \in Procs :
    /\ HandledFailure(p) =>
         /\ calls[p].result = "returned"
         /\ calls[p].value = "undefined"
         /\ Len(NewLogs(p)) = 1 /\ NewLogs(p)[1].status = "FAILED"
         /\ \A r \in WmNow(p) : r.backoff_until # NullTime
         /\ WmNow(p) # {}
    /\ (Done(p) /\ calls[p].fetched /\ calls[p].failedAt = "none") =>
         /\ calls[p].result = "returned"
         /\ calls[p].value = "undefined"

C6_Witness ==
  \E p \in Procs : HandledFailure(p) /\ calls[p].failedAt = "fetch"

\* C7: after a successful sync, every row keyed by one of the fetched records
\* is active (also one that cleanupStaleAlerts had deactivated).
C7_ReingestRevives ==
  \A p \in Procs :
    (Done(p) /\ calls[p].fetched /\ calls[p].failedAt = "none") =>
      \A j \in 1..Len(calls[p].records) :
        \A i \in 1..Len(hazard_alerts) :
          ( /\ calls[p].records[j].id # NULL
            /\ hazard_alerts[i].source = calls[p].source
            /\ hazard_alerts[i].external_id = calls[p].records[j].id )
          => hazard_alerts[i].is_active

\* C8: a sweep turns is_active off on exactly the active rows whose updated_at
\* is more than 72 hours old, whatever their source, changes no other column,
\* keeps every row, and touches neither source_watermarks nor ingestion_logs.
C8_SweepDeactivatesExactlyStale ==
  [][cleanupStaleAlerts =>
       /\ Len(hazard_alerts') = Len(hazard_alerts)
       /\ \A i \in 1..Len(hazard_alerts) :
            LET stale == clock - hazard_alerts[i].updated_at > 72 * 60
            IN  /\ hazard_alerts'[i].is_active =
                     (hazard_alerts[i].is_active /\ ~stale)
                /\ [hazard_alerts'[i] EXCEPT !.is_active = TRUE] =
                     [hazard_alerts[i] EXCEPT !.is_active = TRUE]
       /\ source_watermarks' = source_watermarks
       /\ ingestion_logs' = ingestion_logs]_vars

\* a swept row of one source beside a fresh, active row of the other
C8_Witness ==
  \E i, j \in 1..Len(hazard_alerts) :
    /\ ~hazard_alerts[i].is_active
    /\ clock - hazard_alerts[i].updated_at > 72 * 60
    /\ hazard_alerts[j].is_active
    /\ clock - hazard_alerts[j].updated_at <= 72 * 60
    /\ hazard_alerts[i].source # hazard_alerts[j].source

\* C9: every row an upsert of syncHazardSource adds or changes has the
\* canonical category of the record's raw type in its type column.
C9_StoredTypeIsCanonical ==
  [][\A p \in Procs :
       UpsertRecord(p) =>
         \A i \in 1..Len(hazard_alerts') :
           (i > Len(hazard_alerts) \/ hazard_alerts'[i] # hazard_alerts[i]) =>
             hazard_alerts'[i].type =
               canonicalThreatType(calls[p].records[calls[p].idx].type)]_vars

\* C10: a call that is not skipped and returns appends exactly one log row for
\* its source: SUCCESS with the number of fetched records when every step
\* succeeded, otherwise FAILED with 0 records and the error's message.
C10_OneLogRowPerAttempt ==
  \A p \in Procs :
    (Done(p) /\ calls[p].result = "returned" /\ ~calls[p].skipped) =>
      /\ Len(ingestion_logs) = Len(snap[p].logs) + 1
      /\ SubSeq(ingestion_logs, 1, Len(snap[p].logs)) = snap[p].logs
      /\ NewLogs(p)[1].source = calls[p].source
      /\ IF calls[p].failedAt = "none"
         THEN /\ NewLogs(p)[1].status = "SUCCESS"
              /\ NewLogs(p)[1].records_synced = Len(calls[p].records)
              /\ NewLogs(p)[1].error_message = NULL
         ELSE /\ NewLogs(p)[1].status = "FAILED"
              /\ NewLogs(p)[1].records_synced = 0
              /\ NewLogs(p)[1].error_message = calls[p].error
              /\ calls[p].error # NULL

\* a FAILED row with records_synced = 0 although two records were committed
C10_Witness ==
  \E p \in Procs :
    /\ Done(p) /\ calls[p].result = "returned"
    /\ calls[p].failedAt = "upsert" /\ calls[p].idx = 3
    /\ Len(hazard_alerts) > Len(snap[p].alerts)

\* C11: an attempt that failed in the fetcher or in a record upsert leaves the
\* last_timestamp of its source as it was: it neither changes the one on
\* record nor puts one on record for a source that has never synced
\* successfully.
C11_FailureKeepsLastTimestamp ==
  \A p \in Procs :
    HandledFailure(p) =>
      {r.last_timestamp : r \in WmNow(p)} = {r.last_timestamp : r \in WmThen(p)}

\* C14 as stated: when the watermark write or the SUCCESS log write throws
\* after every record was upserted, the call rejects, no FAILED row is written
\* and the watermark records no backoff.
C14_SuccessPathWriteErrorEscapes ==
  \A p \in Procs :
    (Done(p) /\ calls[p].failedAt \in {"wm_ok", "log_ok"}) =>
      /\ calls[p].result = "threw"
      /\ \A k \in 1..Len(NewLogs(p)) : NewLogs(p)[k].status # "FAILED"
      /\ \A r \in WmNow(p) : r.backoff_until = NullTime \/ r \in WmThen(p)

\* C14 amended: when the watermark write or the SUCCESS log write throws after
\* every record was upserted, the error is caught: control enters the failure
\* handler with nothing written by the failing statement, and a handler that
\* runs to its end leaves error_count >= 1, a backoff_until and one FAILED log
\* row with 0 records, and the call resolves.
C14_SuccessPathWriteErrorIsCaught ==
  [][\A p \in Procs :
       /\ ( /\ calls[p].pc \in {"wm_ok", "log_ok"}
            /\ calls'[p] # calls[p]
            /\ source_watermarks' = source_watermarks
            /\ ingestion_logs' = ingestion_logs )
          => /\ calls'[p].pc = "q_errcount"
             /\ calls'[p].result = "none"
             /\ calls'[p].error = StoreError
             /\ hazard_alerts' = hazard_alerts
       /\ ( /\ calls[p].pc = "log_fail"
            /\ calls[p].failedAt \in {"wm_ok", "log_ok"}
            /\ ingestion_logs' # ingestion_logs )
          => /\ calls'[p].pc = "done"
             /\ calls'[p].result = "returned"
             /\ Len(ingestion_logs') = Len(snap[p].logs) + 1
             /\ ingestion_logs'[Len(ingestion_logs')].status = "FAILED"
             /\ ingestion_logs'[Len(ingestion_logs')].records_synced = 0
             /\ ingestion_logs'[Len(ingestion_logs')].error_message = StoreError
             /\ \E r \in source_watermarks' :
                  /\ r.source = calls[p].source
                  /\ r.error_count >= 1
                  /\ r.backoff_until = calls[p].failTime + BackoffMinutes(r.error_count)]_vars

\* the SUCCESS log write threw after a record was upserted and the watermark
\* was reset, and the call resolved
C14_Witness ==
  \E p \in Procs :
    /\ Done(p) /\ calls[p].failedAt = "log_ok" /\ calls[p].result = "returned"
    /\ Len(calls[p].records) >= 1
    /\ \E r \in WmNow(p) : r.error_count = 1 /\ r.last_timestamp = calls[p].now

\* C15: after a fetch or upsert failure, a watermark write or a FAILED log
\* write of the handler that throws makes the call reject with that error,
\* and the attempt leaves no ingestion_logs row.
C15_HandlerFailurePropagates ==
  [][\A p \in Procs :
       /\ ( /\ calls[p].pc = "wm_fail"
            /\ calls[p].failedAt \in {"fetch", "upsert"}
            /\ calls'[p] # calls[p]
            /\ source_watermarks' = source_watermarks )
          => /\ calls'[p].pc = "done"
             /\ calls'[p].result = "threw"
             /\ calls'[p].value = StoreError
             /\ ingestion_logs' = snap[p].logs
       /\ ( /\ calls[p].pc = "log_fail"
            /\ calls[p].failedAt \in {"fetch", "upsert"}
            /\ calls'[p] # calls[p]
            /\ ingestion_logs' = ingestion_logs )
          => /\ calls'[p].pc = "done"
             /\ calls'[p].result = "threw"
             /\ calls'[p].value = StoreError
             /\ ingestion_logs' = snap[p].logs]_vars

\* the handler's watermark write threw after the second record failed
C15_Witness ==
  \E p \in Procs :
    /\ Done(p) /\ calls[p].failedAt = "upsert" /\ calls[p].idx = 2
    /\ calls[p].thrownBy = "wm_fail" /\ calls[p].result = "threw"
    /\ ingestion_logs = snap[p].logs

\* C16: an upsert that hits an existing (source, external_id) row gives the
\* row the record's severity, title, description, intensity, type and
\* metadata, and sets updated_at to the time of the upsert.
C16_ConflictOverwritesMutableFields ==
  [][\A p \in Procs :
       UpsertRecord(p) =>
         LET rec == calls[p].records[calls[p].idx]
         IN  \A i \in ConflictRows(hazard_alerts, calls[p].source, rec) :
               /\ hazard_alerts'[i].severity = rec.severity
               /\ hazard_alerts'[i].title = rec.title
               /\ hazard_alerts'[i].description = rec.description
               /\ hazard_alerts'[i].intensity = rec.intensity
               /\ hazard_alerts'[i].type = rec.type
               /\ hazard_alerts'[i].metadata = rec.metadata
               /\ hazard_alerts'[i].updated_at = clock]_vars

\* C17: an upsert that hits an existing (source, external_id) row leaves the
\* row's lat, lng, event_at, created_at, external_id and source as they were.
C17_ConflictKeepsIdentityFields ==
  [][\A p \in Procs :
       UpsertRecord(p) =>
         LET rec == calls[p].records[calls[p].idx]
         IN  \A i \in ConflictRows(hazard_alerts, calls[p].source, rec) :
               /\ hazard_alerts'[i].lat = hazard_alerts[i].lat
               /\ hazard_alerts'[i].lng = hazard_alerts[i].lng
               /\ hazard_alerts'[i].event_at = hazard_alerts[i].event_at
               /\ hazard_alerts'[i].created_at = hazard_alerts[i].created_at
               /\ hazard_alerts'[i].external_id = hazard_alerts[i].external_id
               /\ hazard_alerts'[i].source = hazard_alerts[i].source]_vars

\* a row took a record's title but kept a lat, lng and event_at that differ
\* from the record's
C17_Witness ==
  \E p \in Procs :
    \E j \in 1..Len(calls[p].records), i \in 1..Len(hazard_alerts) :
      /\ j < calls[p].idx
      /\ hazard_alerts[i].source = calls[p].source
      /\ hazard_alerts[i].external_id = calls[p].records[j].id
      /\ hazard_alerts[i].external_id # NULL
      /\ hazard_alerts[i].title = calls[p].records[j].title
      /\ hazard_alerts[i].lat # calls[p].records[j].lat
      /\ hazard_alerts[i].lng # calls[p].records[j].lng
      /\ hazard_alerts[i].event_at # calls[p].records[j].event_at
      /\ hazard_alerts[i].updated_at > hazard_alerts[i].created_at

C19_SweepIsIdempotent ==
  [][cleanupStaleAlerts =>
       /\ StaleSweep(hazard_alerts', clock') = hazard_alerts'
       /\ \A i \in 1..Len(hazard_alerts') :
            hazard_alerts'[i].is_active =>
              ~(hazard_alerts'[i].updated_at < clock' - FreshnessMinutes)
       /\ source_watermarks' = source_watermarks
       /\ ingestion_logs' = ingestion_logs]_vars

\* a sweep has deactivated two rows at once
C19_Witness ==
  \E i, j \in 1..Len(hazard_alerts) :
    /\ i # j
    /\ ~hazard_alerts[i].is_active /\ ~hazard_alerts[j].is_active
    /\ hazard_alerts[i].updated_at < clock - FreshnessMinutes
    /\ hazard_alerts[j].updated_at < clock - FreshnessMinutes

\* C20: every step keeps the ingestion_logs rows it found, in place and
\* unchanged; the log changes only by rows appended at its end.
C20_LogIsAppendOnly ==
  [][/\ Len(ingestion_logs') >= Len(ingestion_logs)
     /\ SubSeq(ingestion_logs', 1, Len(ingestion_logs)) = ingestion_logs]_vars

\* a call appended its row behind the rows of earlier calls
C20_Witness ==
  \E p \in Procs :
    /\ Done(p)
    /\ Len(snap[p].logs) >= 2
    /\ Len(ingestion_logs) = Len(snap[p].logs) + 1

\* the rows of one source
AlertsOf(rows, s) == SelectSeq(rows, LAMBDA r : r.source = s)
LogsOf(logs, s)   == SelectSeq(logs, LAMBDA r : r.source = s)

\* C12: every step of a call leaves the alert rows, the watermark row and the
\* log rows of every other source as they are, and what it reads and writes of
\* its own source is what the same step reads and writes in a store that
\* holds the rows of its source alone.
C12_OwnSourceOnly ==
  [][\A p \in Workers :
       calls'[p] # calls[p] =>
         LET c  == calls[p]
             c2 == calls'[p]
             s  == IF c.pc = "idle" THEN c2.source ELSE c.source
             wm == WatermarkRows(source_watermarks, s)
         IN  /\ \A o \in Sources \ {s} :
                  /\ AlertsOf(hazard_alerts', o) = AlertsOf(hazard_alerts, o)
                  /\ WatermarkRows(source_watermarks', o) = WatermarkRows(source_watermarks, o)
                  /\ LogsOf(ingestion_logs', o) = LogsOf(ingestion_logs, o)
             /\ (c.pc = "q_backoff" /\ c2.result # "threw") =>
                  c2.skipped = InBackoff(wm, s, c.now)
             /\ (c.pc = "upsert" /\ c2.idx = c.idx + 1) =>
                  AlertsOf(hazard_alerts', s) =
                    UpsertAlert(AlertsOf(hazard_alerts, s), s, c.records[c.idx], clock)
             /\ (c.pc = "upsert" /\ c2.idx = c.idx) =>
                  hazard_alerts' = hazard_alerts
             /\ (c.pc = "wm_ok" /\ c2.pc = "log_ok") =>
                  WatermarkRows(source_watermarks', s) = WatermarkSuccess(wm, s, c.now)
             /\ (c.pc = "q_errcount" /\ c2.pc = "wm_fail") =>
                  c2.errorCount = NextErrorCount(wm, s)
             /\ (c.pc = "wm_fail" /\ c2.pc = "log_fail") =>
                  WatermarkRows(source_watermarks', s) =
                    WatermarkFailure(wm, s, c.now, c.errorCount, c.backoffUntil)
             /\ \/ LogsOf(ingestion_logs', s) = LogsOf(ingestion_logs, s)
                \/ /\ c.pc \in {"log_ok", "log_fail"}
                   /\ Len(LogsOf(ingestion_logs', s)) = Len(LogsOf(ingestion_logs, s)) + 1
                   /\ SubSeq(LogsOf(ingestion_logs', s), 1, Len(LogsOf(ingestion_logs, s)))
                        = LogsOf(ingestion_logs, s)]_vars

\* two calls for different sources are both in their upsert loop, and each has
\* written the row of external_id f1 of its own source
C12_Witness ==
  /\ calls[1].source # calls[2].source
  /\ \A p \in Workers :
       /\ calls[p].pc \in {"upsert", "wm_ok"}
       /\ calls[p].idx >= 2
       /\ \E i \in 1..Len(hazard_alerts) :
            /\ hazard_alerts[i].source = calls[p].source
            /\ hazard_alerts[i].external_id = "f1"
            /\ hazard_alerts[i].updated_at >= calls[p].startTime
  /\ Len(snap[2].alerts) < Len(hazard_alerts)
  /\ Len(snap[2].alerts) > Len(snap[1].alerts)

\* calls p and q of one source both failed in the fetcher or an upsert, both
\* handlers ran to their end, and both read the same error_count
LostUpdateRace(p, q) ==
  /\ p # q
  /\ HandledFailure(p) /\ HandledFailure(q)
  /\ calls[p].source = calls[q].source
  /\ calls[p].errorCount = calls[q].errorCount

\* C13: nothing keeps two calls of one source apart; when both fail and both
\* read error_count before either writes the watermark, the two attempts leave
\* two FAILED log rows but an error_count only 1 above the one they found.
C13_LostBackoffUpdate ==
  \A p, q \in Workers :
    LostUpdateRace(p, q) =>
      /\ NextErrorCount(snap[p].wm, calls[p].source) = calls[p].errorCount
      /\ NextErrorCount(snap[q].wm, calls[q].source) = calls[q].errorCount
      /\ \A r \in WmNow(p) : r.error_count = calls[p].errorCount
      /\ WmNow(p) # {}
      /\ Len(LogsOf(ingestion_logs, calls[p].source)) =
           Len(LogsOf(snap[1].logs, calls[p].source)) + 2

\* the race, on a source whose watermark row existed with error_count = 0
C13_Witness ==
  \E p, q \in Workers :
    /\ LostUpdateRace(p, q)
    /\ \E r \in WmThen(p) : r.error_count = 0
    /\ \E r \in WmNow(p) : r.error_count = 1

\* the call of p ran its try block to the end
FullSuccess(p) ==
  /\ Done(p) /\ calls[p].fetched
  /\ calls[p].failedAt = "none" /\ calls[p].result = "returned"

\* C22: the steps of one call come in the order backoff check, fetch, upserts
\* (one record per step, in the order of the array), watermark reset, SUCCESS
\* log: the fetcher starts only after the backoff check let the call pass; a
\* row is written only by the upsert of the next record, before any watermark
\* or log write of the call; the watermark is reset only when every record has
\* been upserted; the SUCCESS row is appended only on a reset watermark.
C22_StepOrder ==
  [][\A p \in Procs :
       LET c  == calls[p]
           c2 == calls'[p]
       IN  /\ (c2.fetched /\ ~c.fetched) =>
                /\ c.pc = "fetch" /\ ~c.skipped /\ c.idx = 0
                /\ ~InBackoff(source_watermarks, c.source, c.now)
                /\ hazard_alerts = snap[p].alerts
           /\ (c.pc = "upsert" /\ c2 # c /\ c2.failedAt = "none") =>
                /\ c.fetched /\ c.idx \in 1..Len(c.records)
                /\ c2.idx = c.idx + 1
                /\ hazard_alerts' = UpsertAlert(hazard_alerts, c.source,
                                                c.records[c.idx], clock)
                /\ source_watermarks = snap[p].wm
                /\ ingestion_logs = snap[p].logs
           /\ (~Idle(p) /\ hazard_alerts' # hazard_alerts) => c.pc = "upsert"
           /\ (c.pc = "wm_ok" /\ c2.pc = "log_ok") =>
                /\ c.idx = Len(c.records) + 1
                /\ source_watermarks' = WatermarkSuccess(source_watermarks,
                                                         c.source, c.now)
                /\ ingestion_logs = snap[p].logs
           /\ ( /\ Len(ingestion_logs') > Len(ingestion_logs)
                /\ ingestion_logs'[Len(ingestion_logs')].status = "SUCCESS" ) =>
                /\ c.pc = "log_ok"
                /\ c.idx = Len(c.records) + 1
                /\ WatermarkIsReset(p)]_vars

\* a call that upserted three records, reset the watermark and logged SUCCESS
C22_Witness ==
  \E p \in Procs :
    /\ FullSuccess(p)
    /\ Len(calls[p].records) >= 3
    /\ Len(NewLogs(p)) = 1

\* position of a step in the body of syncHazardSource
Stage(pc) ==
  CASE pc = "idle"       -> 0
    [] pc = "q_backoff"  -> 1
    [] pc = "fetch"      -> 2
    [] pc = "upsert"     -> 3
    [] pc = "wm_ok"      -> 4
    [] pc = "log_ok"     -> 5
    [] pc = "q_errcount" -> 6
    [] pc = "wm_fail"    -> 7
    [] pc = "log_fail"   -> 8
    [] pc = "done"       -> 9

\* C23: a call invokes the fetcher at most once; it never goes back to an
\* earlier statement except to the next iteration of the record loop, and
\* time passes inside a call only while the fetcher runs (no retry, no sleep);
\* when the fetcher and every store query settle, the call ends.
C23_OneFetchAndTermination ==
  /\ [][\A p \in Procs :
          LET c  == calls[p]
              c2 == calls'[p]
          IN  (c.pc \notin {"idle", "done"} /\ c2 # c) =>
                /\ \/ Stage(c2.pc) > Stage(c.pc)
                   \/ c.pc = "upsert" /\ c2.pc = "upsert" /\ c2.idx = c.idx + 1
                                      /\ c2.idx <= Len(c.records)
                /\ c2.fetched # c.fetched => (c.pc = "fetch" /\ ~c.fetched)
                /\ clock' # clock => c.pc = "fetch"]_vars
  /\ \A p \in Procs : (calls[p].pc \notin {"idle", "done"}) ~> Done(p)

\* a call whose fetch failed has ended with the fetcher invoked once and the
\* failure logged
C23_Witness ==
  \E p \in Procs :
    /\ HandledFailure(p) /\ calls[p].failedAt = "fetch"
    /\ calls[p].fetched
    /\ Len(NewLogs(p)) = 1

\* C24: the failure upsert writes a backoff_until at most 1440 minutes after
\* the failure, and a call that starts 1440 minutes or more after the last
\* failed attempt of its source passes the backoff check (its watermark read
\* succeeding) and goes on to the fetcher.
C24_NoPermanentLockout ==
  [][\A p \in Procs :
       LET c  == calls[p]
           c2 == calls'[p]
           f  == fails[c.source]
       IN  /\ (c.pc = "wm_fail" /\ c2.pc = "log_fail") =>
                \A r \in WatermarkRows(source_watermarks', c.source) :
                  /\ r.backoff_until # NullTime
                  /\ r.backoff_until <= c.failTime + 1440
                  /\ c.failTime = clock
           /\ ( /\ c.pc = "q_backoff" /\ c2 # c /\ c2.result # "threw"
                /\ f.at # NullTime /\ c.now >= f.at + 1440 ) =>
                /\ c2.pc = "fetch" /\ ~c2.skipped]_vars

\* a call that started exactly 1440 minutes after the last failure of a source
\* with a capped window on record has invoked the fetcher
C24_Witness ==
  \E p \in Procs :
    /\ calls[p].fetched
    /\ \E r \in WmThen(p) : /\ r.backoff_until = calls[p].now
                            /\ r.error_count >= 11
    /\ \E i \in 1..Len(snap[p].logs) : snap[p].logs[i].status = "FAILED"
    /\ calls[p].pc \in {"upsert", "wm_ok", "q_errcount"}
    /\ fails[calls[p].source].at + 1440 = calls[p].now

\* C25: every source has at most one watermark row; error_count is never
\* negative, and it is 0 exactly when backoff_until is NULL.
C25_WatermarkRowShape ==
  /\ \A s \in Sources : Cardinality(WatermarkRows(source_watermarks, s)) <= 1
  /\ \A r \in source_watermarks :
       /\ r.error_count >= 0
       /\ (r.error_count = 0) <=> (r.backoff_until = NullTime)

\* two calls of one source overlapped; one wrote a failure, the other then
\* reset the row
C25_Witness ==
  \E p, q \in Workers :
    /\ p # q /\ calls[p].source = calls[q].source
    /\ calls[p].pc \in {"log_fail", "done"} /\ calls[p].failedAt = "fetch"
    /\ calls[p].thrownBy = "none"
    /\ calls[q].pc \in {"log_ok", "done"} /\ calls[q].failedAt = "none"
    /\ calls[q].fetched
    /\ snap[q].wm = snap[p].wm
    /\ \E r \in WmNow(p) : r.error_count = 0 /\ r.last_timestamp = calls[q].now

\* rows of hazard_alerts of source s without an external_id
IdlessRows(rows, s) ==
  {i \in 1..Len(rows) : rows[i].source = s /\ rows[i].external_id = NULL}

\* worker 2 synced the same source as worker 1, after worker 1 had ended;
\* both fetched the id-less record RecN and both succeeded
RepeatedIdlessSync ==
  /\ calls[1].source = calls[2].source
  /\ \A p \in Workers :
       /\ FullSuccess(p)
       /\ \E k \in 1..Len(calls[p].records) : calls[p].records[k] = RecN
  /\ Len(snap[2].logs) = Len(snap[1].logs) + 1

\* C26: a second sync of an id-less record adds no hazard_alerts row: after
\* it, the source has as many id-less rows as after the first sync.
C26_IdlessRecordNotDuplicated ==
  RepeatedIdlessSync =>
    Cardinality(IdlessRows(hazard_alerts, calls[2].source)) =
      Cardinality(IdlessRows(snap[2].alerts, calls[2].source))

\* C27: a call whose fetcher returned an empty array (the store writes
\* succeeding) leaves hazard_alerts as it was, resets the watermark and
\* appends one SUCCESS log row with records_synced = 0.
C27_EmptyBatchIsSuccess ==
  \A p \in Procs :
    ( /\ Done(p) /\ calls[p].fetched /\ calls[p].records = <<>>
      /\ calls[p].failedAt = "none" /\ calls[p].thrownBy = "none" ) =>
      /\ calls[p].result = "returned"
      /\ hazard_alerts = snap[p].alerts
      /\ WatermarkIsReset(p)
      /\ Len(NewLogs(p)) = 1
      /\ NewLogs(p)[1].source = calls[p].source
      /\ NewLogs(p)[1].status = "SUCCESS"
      /\ NewLogs(p)[1].records_synced = 0
      /\ NewLogs(p)[1].error_message = NULL

\* an empty array came back for a source in backoff history: the window that
\* had been on record is gone
C27_Witness ==
  \E p \in Procs :
    /\ FullSuccess(p) /\ calls[p].records = <<>>
    /\ \E r \in WmThen(p) : r.error_count >= 1 /\ r.backoff_until # NullTime
    /\ \A r \in WmNow(p) : r.backoff_until = NullTime

\* the category whose alias set holds word w
CategoryOf(w) ==
  TaxonomyTable[CHOOSE k \in 1..Len(TaxonomyTable) : w \in TaxonomyTable[k].aliases].canonical

\* C21: canonicalThreatType gives a string for every input and changes
\* nothing else; a spelling of an alias, in any letter case and with any
\* surrounding whitespace, gives the category of the alias; null, undefined
\* and the empty string give "unknown"; a spelling of any other word gives the
\* word trimmed and lower-cased; a second application gives the same.
C21_MapperIsTotalAndCanonical ==
  [][mapper' # mapper =>
       /\ UNCHANGED <<workerVars, breakerVars, orchVars>>
       /\ mapper'.input = mapper.input /\ mapper'.origin = mapper.origin
       /\ mapper'.output # NoOutput
       /\ mapper'.output = Restyle("lower", mapper'.output)
       /\ mapper.output # NoOutput => mapper'.output = mapper.output
       /\ mapper'.output =
            IF mapper.input = NullType \/ mapper.input = <<>> THEN S_unknown
            ELSE IF mapper.origin \in Aliases THEN CategoryOf(mapper.origin)
            ELSE mapper.origin]_vars

\* " \tHURRICANE\n"-like input: an alias of cyclone in upper case with
\* whitespace on both sides has been mapped, twice
C21_Witness ==
  /\ mapper.applied = 2
  /\ mapper.origin = S_hurricane
  /\ mapper.input # mapper.origin
  /\ Len(mapper.input) = Len(mapper.origin) + 3
  /\ mapper.input[3] = "H" /\ mapper.input[4] = "U"
  /\ mapper.output = S_cyclone

\* call p of the breaker returns in this step
BreakerReturns(p, op) ==
  /\ breakerCalls[p].op = op
  /\ breakerCalls[p].pc # "done"
  /\ breakerCalls'[p].pc = "done"
  /\ breakerCalls'[p].result = "returned"

\* what C28 says of isOpen and recordSuccess: an isOpen call made while the
\* breaker stands opened (by a recordFailure call at openSince, with no
\* recordSuccess and no half-opening since) returns true up to 600 seconds
\* after the opening, and later sets HALF_OPEN and returns false; a
\* recordSuccess call leaves the state CLOSED and no failures counter.
C28_IsOpenAndSuccess(p) ==
  /\ (BreakerReturns(p, "isOpen") /\ breakerHist.openSince # NullTime) =>
       IF wallClock - breakerHist.openSince <= 600
       THEN /\ breakerCalls'[p].value = TRUE
            /\ redis'.state = "OPEN"
       ELSE /\ breakerCalls'[p].value = FALSE
            /\ redis'.state = "HALF_OPEN"
            /\ redis.state = "OPEN"
  /\ BreakerReturns(p, "recordSuccess") =>
       /\ redis'.state = "CLOSED"
       /\ Live(redis', wallClock).failures = 0
       /\ redis'.expires = NullTime

\* C28 as stated: when the 5th (or a later) recordFailure call in a row, with
\* no recordSuccess call in between, returns, the state is OPEN; and the rest.
C28_OpensAfterFiveFailures ==
  [][\A p \in DOMAIN breakerCalls :
       /\ (BreakerReturns(p, "recordFailure") /\ breakerHist'.streak >= 5) =>
            /\ redis'.state = "OPEN"
            /\ redis'.opened_at = toString(DateNow(wallClock))
       /\ C28_IsOpenAndSuccess(p)]_vars

\* C28 amended: the same for 5 recordFailure calls in a row of which each was
\* made less than 3600 seconds after the one before.
C28_OpensAfterFiveFailuresInWindow ==
  [][\A p \in DOMAIN breakerCalls :
       /\ (BreakerReturns(p, "recordFailure") /\ breakerHist'.window >= 5) =>
            /\ redis'.state = "OPEN"
            /\ redis'.opened_at = toString(DateNow(wallClock))
       /\ C28_IsOpenAndSuccess(p)]_vars

\* the 5th failure in a row came a second after the 4th and opened the
\* breaker; 601 seconds later an isOpen call half-opened it and returned false
C28_Witness ==
  \E p \in DOMAIN breakerCalls :
    /\ breakerCalls[p].op = "isOpen" /\ breakerCalls[p].pc = "done"
    /\ breakerCalls[p].result = "returned"
    /\ breakerCalls[p].value = FALSE
    /\ redis.state = "HALF_OPEN"
    /\ breakerHist.window = 5
    /\ breakerHist.lastFailureAt = 1
    /\ redis.opened_at = toString(DateNow(1))
    /\ wallClock = 602

\* C29: whatever the interleaving of recordFailure and isOpen calls, no isOpen
\* call sets HALF_OPEN or returns false less than 600 seconds after the state
\* key last changed to OPEN.
C29_NoEarlyHalfOpen ==
  [][\A p \in DOMAIN breakerCalls :
       ( /\ breakerCalls[p].op = "isOpen"
         /\ breakerCalls'[p] # breakerCalls[p]
         /\ \/ redis'.state = "HALF_OPEN" /\ redis.state # "HALF_OPEN"
            \/ /\ breakerCalls'[p].pc = "done"
               /\ breakerCalls'[p].result = "returned"
               /\ breakerCalls'[p].value = FALSE
         /\ breakerHist.lastOpenTransition # NullTime ) =>
         wallClock - breakerHist.lastOpenTransition >= 600]_vars

\* C30: the events are handled one at a time in the order they were passed to
\* emit, and whenever no processQueue activation is left, every event passed
\* to emit has been handled, the queue is empty and isProcessing is false.
C30_EveryEventHandledInOrder ==
  /\ \A k \in 1..Len(handled) : handled[k] = k
  /\ orchRun.pc = "none" =>
       /\ isProcessing = FALSE
       /\ eventQueue = <<>>
       /\ Len(handled) = emitted
====
